---- MODULE Spec2Model ----
(***************************************************************************)
(* A model of write-pypistat (src/src/writepypistat): the StatDate range,  *)
(* the period segmenter of WritePypiStat, the reconciliation of fetched    *)
(* and stored statistics, gap filling, the row filter and the csv writer.  *)
(*                                                                         *)
(* Representation.                                                         *)
(*  - A datetime at midnight is its proleptic Gregorian ordinal (an Int,   *)
(*    as datetime.toordinal()); a date string "YYYY-MM-DD" is the tuple of *)
(*    its '-'-separated tokens <<y, m, d>>, so "2022" is <<2022>>.         *)
(*  - A DataFrame is a record [cols, rows]: the set of its column names    *)
(*    and the bag of its rows; a row is a record with the four fields      *)
(*    date, package, category, downloads, a column the frame lacks holding *)
(*    the NoCol value of its type.  Row order is not modelled.             *)
(*  - Python's None for an Optional[DataFrame] is the record NoneDF.       *)
(***************************************************************************)
EXTENDS Integers, Sequences, FiniteSets, Bags, TLC

VARIABLES
    seg_args,    \* arguments of one _get_pypistat_by_* call under study
    seg_stats,   \* the list of partitions that call returned
    seg_pc,      \* "call" before the call, "done" after it
    rec_self,    \* the WritePypiStat object of one partition under study
    rec_date,    \* the partition's StatDate
    rec_fresh,   \* what _get_pypistat returned for it
    rec_stored,  \* what _get_stored_pypistat returned for it
    rec_merged,  \* stat after the stored-data step
    rec_filled,  \* stat after the gap-filling step
    rec_final,   \* stat after _filter_data_frame_rows
    rec_pc,      \* "fetched", "merged", "filled", "filtered"
    wps,         \* the WritePypiStat object: its properties
    files,       \* the csv files of outdir, a set of [file, text]
    made,        \* whether the directory outdir exists
    pc,          \* where write_pypistat is: "idle", "fetch", "stored", "fill", "write"
    given,       \* the date strings the last call of write_pypistat was given
    args,        \* the arguments of the call of write_pypistat under way
    parts,       \* the partitions its walk of the range goes through
    cur,         \* the partition being gathered: stat, and what was fetched and found
    stats,       \* the list stats of _write_pypistats
    written,     \* how many elements of stats the loop over _write_csv has handled
    log,         \* the steps of the call so far, in order
    runs,        \* how many calls of write_pypistat have begun
    exc,         \* the exception the call ended with, "none" while there is none
    sd_obj,      \* a StatDate object: live once constructed, _start and _end
    sd_prev,     \* that object before the last operation on it
    sd_call,     \* the last operation of StatDate called, and its arguments
    sd_ret,      \* what that operation raised or returned
    sd_n,        \* how many operations of StatDate have been called
    op_a,        \* a table: the stat of _filter_data_frame_rows, dataf1 of a merge
    op_b,        \* a second table: dataf2 of a merge
    op_keys,     \* the key columns of the merge
    op_out1,     \* the table after the operation was applied once
    op_out2,     \* the table after it was applied a second time
    op_pc,       \* "new", "finalized", "finalized2", "merged", "merged2"
    ft_self,     \* the WritePypiStat object of one call of _get_pypistat
    ft_raw,      \* the table the call of pypistats returned to it
    ft_last,     \* the row sort_values left last, if there is a row
    ft_ret,      \* what _get_pypistat returned or raised
    ft_pc,       \* "call" before the call, "done" after it
    rr_self,     \* the WritePypiStat object of a series of calls of write_pypistat
    rr_files,    \* the csv files of its outdir
    rr_last      \* the last call: its range, the provider's response, the files before

seg_vars == <<seg_args, seg_stats, seg_pc>>

rec_vars == <<rec_self, rec_date, rec_fresh, rec_stored, rec_merged, rec_filled,
              rec_final, rec_pc>>

pipe_vars == <<wps, files, made, pc, given, args, parts, cur, stats, written, log, runs,
              exc>>

date_vars == <<sd_obj, sd_prev, sd_call, sd_ret, sd_n>>

ops_vars == <<op_a, op_b, op_keys, op_out1, op_out2, op_pc>>

fetch_vars == <<ft_self, ft_raw, ft_last, ft_ret, ft_pc>>

rerun_vars == <<rr_self, rr_files, rr_last>>

vars == <<seg_vars, rec_vars, pipe_vars, date_vars, ops_vars, fetch_vars, rerun_vars>>

(***************************************************************************)
(* datetime / calendar                                                     *)
(***************************************************************************)
IsLeap(y) == (y % 4 = 0 /\ y % 100 # 0) \/ y % 400 = 0

\* calendar.monthrange(y, m)[1]
MonthRange(y, m) ==
    IF m = 2 THEN (IF IsLeap(y) THEN 29 ELSE 28)
    ELSE IF m \in {4, 6, 9, 11} THEN 30 ELSE 31

DaysBeforeYear(y) ==
    LET p == y - 1 IN p * 365 + (p \div 4) - (p \div 100) + (p \div 400)

RECURSIVE DaysBeforeMonth(_, _)
DaysBeforeMonth(y, m) ==
    IF m <= 1 THEN 0 ELSE DaysBeforeMonth(y, m - 1) + MonthRange(y, m - 1)

\* datetime(y, m, d)
Datetime(y, m, d) == DaysBeforeYear(y) + DaysBeforeMonth(y, m) + d

\* datetime.year
YearOf(n) ==
    LET n0   == n - 1
        n400 == n0 \div 146097
        r400 == n0 % 146097
        n100 == r400 \div 36524
        r100 == r400 % 36524
        n4   == r100 \div 1461
        r4   == r100 % 1461
        n1   == r4 \div 365
        y    == n400 * 400 + n100 * 100 + n4 * 4 + n1 + 1
    IN  IF n1 = 4 \/ n100 = 4 THEN y - 1 ELSE y

RECURSIVE MonthFrom(_, _, _)
MonthFrom(y, m, doy) ==
    IF doy <= MonthRange(y, m) THEN m ELSE MonthFrom(y, m + 1, doy - MonthRange(y, m))

\* the month of day n of year y
MonthOfYear(y, n) == MonthFrom(y, 1, n - DaysBeforeYear(y))

\* datetime.month
MonthOf(n) == MonthOfYear(YearOf(n), n)

\* year, month and day of day n of month m of year y
YmdOfMonth(y, m, n) == <<y, m, n - DaysBeforeYear(y) - DaysBeforeMonth(y, m)>>

YmdOfYear(y, n) == YmdOfMonth(y, MonthOfYear(y, n), n)

\* datetime.strftime with the formats "%Y", "%Y-%m" and "%Y-%m-%d"
StrftimeY(n)   == <<YearOf(n)>>
StrftimeYm(n)  == <<YearOf(n), MonthOf(n)>>
StrftimeYmd(n) == YmdOfYear(YearOf(n), n)

\* can datetime.strptime(s, "%Y-%m-%d") parse the three tokens
ValidYmd(s) ==
    /\ Len(s) = 3
    /\ s[1] \in 1..9999
    /\ s[2] \in 1..12
    /\ s[3] \in 1..MonthRange(s[1], s[2])

\* A raised exception or a returned value.
Raise(e) == [exc |-> e, val |-> 0]
Return(v) == [exc |-> "none", val |-> v]

\* datetime.strptime(s, "%Y-%m-%d")
Strptime(s) ==
    IF ValidYmd(s) THEN Return(Datetime(s[1], s[2], s[3])) ELSE Raise("ValueError")

(***************************************************************************)
(* statdate.py: StatDate                                                   *)
(***************************************************************************)
\* Optional[str] None
NoneStr == <<>>

TimeDeltaMax == 181

\* format_start taking the first three of more than three tokens
ParseStartFirstThree(start) ==
    IF Len(start) = 1 THEN Strptime(start \o <<1, 1>>)
    ELSE IF Len(start) = 2 THEN Strptime(start \o <<1>>)
    ELSE IF Len(start) >= 3 THEN Strptime(SubSeq(start, 1, 3))
    ELSE Raise("ValueError")

\* format_start from the split of the string on
ParseStart(start) ==
    IF Len(start) = 1 THEN Strptime(start \o <<1, 1>>)
    ELSE IF Len(start) = 2 THEN Strptime(start \o <<1>>)
    ELSE IF Len(start) = 3 THEN Strptime(start)
    ELSE Raise("ValueError")

\* format_start going back 180 days
FormatStartHalfYear(start, now) ==
    ParseStart(IF start = NoneStr THEN StrftimeYmd(now - 180) ELSE start)

\* StatDate.format_start; now is datetime.now()
FormatStart(start, now) ==
    ParseStart(IF start = NoneStr THEN StrftimeYmd(now - TimeDeltaMax) ELSE start)

\* format_end with a February of 28 days in every year
ParseEndNoLeap(end) ==
    IF Len(end) = 1 THEN Strptime(end \o <<12, 31>>)
    ELSE IF Len(end) = 2
    THEN (IF end[1] \in 1..9999 /\ end[2] \in 1..12
          THEN Strptime(end \o <<IF end[2] = 2 THEN 28 ELSE MonthRange(end[1], end[2])>>)
          ELSE Raise("ValueError"))
    ELSE IF Len(end) = 3 THEN Strptime(end)
    ELSE Raise("ValueError")

\* format_end from the split of the string on
ParseEnd(end) ==
    IF Len(end) = 1 THEN Strptime(end \o <<12, 31>>)
    ELSE IF Len(end) = 2
    THEN (IF end[1] \in 1..9999 /\ end[2] \in 1..12
          THEN Strptime(end \o <<MonthRange(end[1], end[2])>>)
          ELSE Raise("ValueError"))
    ELSE IF Len(end) = 3 THEN Strptime(end)
    ELSE Raise("ValueError")

\* StatDate.format_end
FormatEnd(end, now) ==
    ParseEnd(IF end = NoneStr THEN StrftimeYmd(now) ELSE end)

\* the end of StatDate.__init__, _start and _end formatted
CheckedStatDate(fs, fe) ==
    IF fs.exc # "none" THEN Raise(fs.exc)
    ELSE IF fe.exc # "none" THEN Raise(fe.exc)
    ELSE IF ~(fs.val <= fe.val) THEN Raise("AssertionError")
    ELSE Return([start |-> fs.val, end |-> fe.val])

\* StatDate.__init__: the new object [start, end], or the exception raised
StatDateInit(start, end, now) ==
    CheckedStatDate(FormatStart(start, now), FormatEnd(end, now))

\* a setter raising e: the exception, and the object as it leaves it
RaiseLeaving(e, self) == [exc |-> e, val |-> self]

\* the start setter assigning without the assert
StartSetterUnchecked(self, start, now) ==
    IF FormatStart(start, now).exc # "none"
    THEN RaiseLeaving(FormatStart(start, now).exc, self)
    ELSE Return([self EXCEPT !.start = FormatStart(start, now).val])

\* the start setter: the object after self.start = start, and the exception
\* raised if any; self.end and the formatted start are datetime objects,
\* which are true, and _start is assigned after the assert
StartSetter(self, start, now) ==
    IF FormatStart(start, now).exc # "none"
    THEN RaiseLeaving(FormatStart(start, now).exc, self)
    ELSE IF ~(FormatStart(start, now).val <= self.end)
    THEN RaiseLeaving("AssertionError", self)
    ELSE Return([self EXCEPT !.start = FormatStart(start, now).val])

\* the end setter assigning _end before the assert
EndSetterAssignsFirst(self, end, now) ==
    IF FormatEnd(end, now).exc # "none"
    THEN RaiseLeaving(FormatEnd(end, now).exc, self)
    ELSE IF ~(self.start <= FormatEnd(end, now).val)
    THEN RaiseLeaving("AssertionError", [self EXCEPT !.end = FormatEnd(end, now).val])
    ELSE Return([self EXCEPT !.end = FormatEnd(end, now).val])

\* the end setter: the object after self.end = end, and the exception raised
\* if any; _end is assigned after the assert
EndSetter(self, end, now) ==
    IF FormatEnd(end, now).exc # "none"
    THEN RaiseLeaving(FormatEnd(end, now).exc, self)
    ELSE IF ~(self.start <= FormatEnd(end, now).val)
    THEN RaiseLeaving("AssertionError", self)
    ELSE Return([self EXCEPT !.end = FormatEnd(end, now).val])

(***************************************************************************)
(* pypistat.py: the period segmenter.  Each _get_pypistat_by_* walks the   *)
(* days of the range and emits one partition per period; what it does with *)
(* a partition (fetch, merge, fill) does not feed back into the walk, so   *)
(* the walk is modelled on its own: it yields the list of                  *)
(* [stat_date, stat_file] the statistics are then gathered for.            *)
(***************************************************************************)
\* the file name without the period in front
StatFileNoPrefix(prefix, postfix, stat_type) ==
    [prefix |-> NoneStr,
     name   |-> IF postfix # NoneStr THEN postfix[1] ELSE "pypistat" \o "_" \o stat_type,
     ext    |-> ".csv"]

\* the file name without regard to postfix
StatFileIgnoresPostfix(prefix, postfix, stat_type) ==
    [prefix |-> prefix, name |-> "pypistat" \o "_" \o stat_type, ext |-> ".csv"]

\* "<prefix>_" + (postfix if postfix is not None else "pypistat" + "_" + stat_type) + ".csv"
StatFile(prefix, postfix, stat_type) ==
    [prefix |-> prefix,
     name   |-> IF postfix # NoneStr THEN postfix[1] ELSE "pypistat" \o "_" \o stat_type,
     ext    |-> ".csv"]

Partition(sd, stat_file) == [stat_date |-> sd, stat_file |-> stat_file]

\* the loop state of a walk: the partitions so far, the periods seen, the
\* running cursor and the exception raised, if any
LoopInit(start_date) ==
    [stats |-> <<>>, seen |-> {}, actual_start_date |-> start_date, exc |-> "none"]

\* the body of "if day.year not in years" and "if day.month not in months":
\* remember the period, build the StatDate sd, append the partition and move
\* the cursor past the end of the period
Emit(st, period, sd, stat_file, period_end) ==
    IF sd.exc # "none" THEN [st EXCEPT !.exc = sd.exc]
    ELSE [st EXCEPT !.seen = @ \cup {period},
                    !.stats = Append(@, Partition(sd.val, stat_file)),
                    !.actual_start_date = period_end + 1]

Min(a, b) == IF a <= b THEN a ELSE b

\* the year's partition without the clamp of the year's end to end_date
YearPartitionNoClamp(st, day, actual_year_end, a) ==
    Emit(st, YearOf(day),
         StatDateInit(StrftimeYmd(st.actual_start_date),
                      StrftimeYmd(actual_year_end), day),
         StatFile(StrftimeY(day), a.postfix, a.stat_type),
         actual_year_end)

\* the partition of the year of day, which ends on actual_year_end;
\* actual_end_date = actual_year_end if actual_year_end <= end_date else end_date
YearPartition(st, day, actual_year_end, a) ==
    Emit(st, YearOf(day),
         StatDateInit(StrftimeYmd(st.actual_start_date),
                      StrftimeYmd(Min(actual_year_end, a.end_date)), day),
         StatFile(StrftimeY(day), a.postfix, a.stat_type),
         actual_year_end)

\* one iteration of the loop of _get_pypistat_by_year, on day
YearBody(st, day, a) ==
    IF YearOf(day) \in st.seen THEN st
    ELSE YearPartition(st, day, Datetime(YearOf(day), 12, 31), a)

\* the partition of the month of day, which ends on actual_month_end
MonthPartition(st, day, actual_month_end, a) ==
    Emit(st, MonthOf(day),
         StatDateInit(StrftimeYmd(st.actual_start_date),
                      StrftimeYmd(Min(actual_month_end, a.end_date)), day),
         StatFile(StrftimeYm(day), a.postfix, a.stat_type),
         actual_month_end)

\* datetime(year, month, calendar.monthrange(year, month)[1])
MonthEnd(year, month) == Datetime(year, month, MonthRange(year, month))

\* one iteration of the loop of _get_pypistat_by_month, on day
MonthBody(st, day, a) ==
    IF MonthOf(day) \in st.seen THEN st
    ELSE MonthPartition(st, day, MonthEnd(YearOf(day), MonthOf(day)), a)

\* the end of the body of the loop of _get_pypistat_by_day
DayPartition(st, sd, stat_file) ==
    IF sd.exc # "none" THEN [st EXCEPT !.exc = sd.exc]
    ELSE [st EXCEPT !.stats = Append(@, Partition(sd.val, stat_file))]

\* one iteration of the loop of _get_pypistat_by_day, on day
DayBody(st, day, a) ==
    DayPartition(st, StatDateInit(StrftimeYmd(day), StrftimeYmd(day), day),
                 StatFile(StrftimeYmd(day), a.postfix, a.stat_type))

\* for i in range(lo, hi + 1): day = start_date + timedelta(days=i); body.
\* The iterations run in order, each on
\* the state the previous one left; an exception ends the loop.  (The range
\* is split in halves, the state after the first half being s, only to keep
\* the evaluation shallow.)
RECURSIVE YearLoop(_, _, _, _)
YearLoop(st, lo, hi, a) ==
    IF lo > hi \/ st.exc # "none" THEN st
    ELSE IF lo = hi THEN YearBody(st, a.start_date + lo, a)
    ELSE LET mid == (lo + hi) \div 2
         IN  CHOOSE r \in {YearLoop(s, mid + 1, hi, a) :
                              s \in {YearLoop(st, lo, mid, a)}} : TRUE

RECURSIVE MonthLoop(_, _, _, _)
MonthLoop(st, lo, hi, a) ==
    IF lo > hi \/ st.exc # "none" THEN st
    ELSE IF lo = hi THEN MonthBody(st, a.start_date + lo, a)
    ELSE LET mid == (lo + hi) \div 2
         IN  CHOOSE r \in {MonthLoop(s, mid + 1, hi, a) :
                              s \in {MonthLoop(st, lo, mid, a)}} : TRUE

RECURSIVE DayLoop(_, _, _, _)
DayLoop(st, lo, hi, a) ==
    IF lo > hi \/ st.exc # "none" THEN st
    ELSE IF lo = hi THEN DayBody(st, a.start_date + lo, a)
    ELSE LET mid == (lo + hi) \div 2
         IN  CHOOSE r \in {DayLoop(s, mid + 1, hi, a) :
                              s \in {DayLoop(st, lo, mid, a)}} : TRUE

\* the partitions of each walk, a = [stat_type, start_date, end_date, postfix];
\* range((end_date - start_date).days + 1) is 0 .. end_date - start_date
GetPypistatByYear(a)  == YearLoop(LoopInit(a.start_date), 0, a.end_date - a.start_date, a)
GetPypistatByMonth(a) == MonthLoop(LoopInit(a.start_date), 0, a.end_date - a.start_date, a)
GetPypistatByDay(a)   == DayLoop(LoopInit(a.start_date), 0, a.end_date - a.start_date, a)
GetPypistatByNone(a)  ==
    [LoopInit(a.start_date) EXCEPT
        !.stats = <<Partition([start |-> a.start_date, end |-> a.end_date],
                              StatFile(<<>>, a.postfix, a.stat_type))>>]

\* the dispatch of _write_pypistats on date_period
Segment(date_period, a) ==
    IF date_period = "day" THEN GetPypistatByDay(a)
    ELSE IF date_period = "month" THEN GetPypistatByMonth(a)
    ELSE IF date_period = "year" THEN GetPypistatByYear(a)
    ELSE GetPypistatByNone(a)

StatPeriod == {"day", "month", "year", "none"}

(***************************************************************************)
(* pandas DataFrames as the program uses them                              *)
(***************************************************************************)
\* np.nan in a date, package, category and downloads cell
NaNDate == <<>>
NaNStr == "<NaN>"
NaNInt == -1

\* the cell of a column the frame does not have
NoCol == "<no column>"

\* Optional[pd.DataFrame] None
NoneDF == [none |-> TRUE, cols |-> {}, rows |-> EmptyBag]

DataFrame(cols, rows) == [none |-> FALSE, cols |-> cols, rows |-> rows]

Row(date, package, category, downloads) ==
    [date |-> date, package |-> package, category |-> category, downloads |-> downloads]

\* the date None of the total row of pypistats
NoneDate == <<"<None>">>

\* Series.astype(str) of a date cell and of a package or category cell
AsTypeStrDate(c) ==
    IF c = NaNDate THEN <<"nan">> ELSE IF c = NoneDate THEN <<"None">> ELSE c
AsTypeStr(c) == IF c = NaNStr THEN "nan" ELSE c

\* WritePypiStat._set_data_frame_columns
SetDataFrameColumns(dataf) ==
    [dataf EXCEPT !.rows =
        BagOfAll(LAMBDA r :
                    [r EXCEPT !.date = AsTypeStrDate(@),
                              !.package = IF "package" \in dataf.cols
                                          THEN AsTypeStr(@) ELSE @,
                              !.category = IF "category" \in dataf.cols
                                           THEN AsTypeStr(@) ELSE @],
                 @)]

\* DataFrame.replace("null", np.nan).replace("nan", np.nan)
ReplaceDate(c) == IF c \in {<<"null">>, <<"nan">>} THEN NaNDate ELSE c
\* replace("null", np.nan) alone
ReplaceStrNullOnly(c) == IF c = "null" THEN NaNStr ELSE c
\* replace("null", np.nan).replace("nan", np.nan) of a package or category cell
ReplaceStr(c) == IF c \in {"null", "nan"} THEN NaNStr ELSE c
ReplaceRow(r) ==
    [r EXCEPT !.date = ReplaceDate(@), !.package = ReplaceStr(@),
              !.category = ReplaceStr(@)]
ReplaceNullNan(dataf) == [dataf EXCEPT !.rows = BagOfAll(ReplaceRow, @)]

\* the values of the key columns of a row
KeyOf(r, keys) == [k \in keys |-> r[k]]

\* a cell of a merged row that is not a key and not downloads: the column
\* comes from the frame that has it, and is NaN in the rows of the other one
MergedCell(c, r1, r2, cols1, cols2, side) ==
    IF c \in cols1 THEN (IF side = "right" THEN NaNStr ELSE r1[c])
    ELSE IF c \in cols2 THEN (IF side = "left" THEN NaNStr ELSE r2[c])
    ELSE NoCol

\* FillNa with the frames taken the wrong way round: dataf2's downloads win
FillNaSecondWins(downloads, downloads_x) ==
    IF downloads_x # NaNInt THEN downloads_x ELSE downloads

\* Series.fillna: downloads of dataf1, and of dataf2 where that is missing
FillNa(downloads, downloads_x) ==
    IF downloads # NaNInt THEN downloads ELSE downloads_x

\* a row of pd.merge(dataf1, dataf2, how="outer", on=keys) after the renames,
\* the fillna and the drop of downloads_x; side says which frames have the key
MergedRow(r1, r2, keys, cols1, cols2, side) ==
    LET k == IF side = "right" THEN r2 ELSE r1
    IN  Row(k.date,
            IF "package" \in keys THEN k.package
            ELSE MergedCell("package", r1, r2, cols1, cols2, side),
            IF "category" \in keys THEN k.category
            ELSE MergedCell("category", r1, r2, cols1, cols2, side),
            FillNa(IF side = "right" THEN NaNInt ELSE r1.downloads,
                   IF side = "left" THEN NaNInt ELSE r2.downloads))

\* _merge_data_frames appending the rows of dataf2 to those of dataf1
MergeDataFramesConcat(dataf1, dataf2, keys) ==
    DataFrame(dataf1.cols \cup dataf2.cols,
              BagOfAll(LAMBDA r : MergedRow(r, r, keys, dataf1.cols, dataf2.cols, "left"),
                       ReplaceNullNan(dataf1).rows)
              (+) BagOfAll(LAMBDA q : MergedRow(q, q, keys, dataf1.cols, dataf2.cols,
                                                "right"),
                           ReplaceNullNan(dataf2).rows))

\* WritePypiStat._merge_data_frames (the order of the rows aside)
MergeDataFrames(dataf1, dataf2, keys) ==
    LET d1 == ReplaceNullNan(dataf1)
        d2 == ReplaceNullNan(dataf2)
        s1 == BagToSet(d1.rows)
        s2 == BagToSet(d2.rows)
        both == {p \in s1 \X s2 : KeyOf(p[1], keys) = KeyOf(p[2], keys)}
        left == {r \in s1 : \A q \in s2 : KeyOf(r, keys) # KeyOf(q, keys)}
        right == {q \in s2 : \A r \in s1 : KeyOf(r, keys) # KeyOf(q, keys)}
        \* an outer join pairs every row with every row of the same key
        bothBag == [p \in both |-> d1.rows[p[1]] * d2.rows[p[2]]]
        leftBag == [r \in left |-> d1.rows[r]]
        rightBag == [q \in right |-> d2.rows[q]]
    IN  DataFrame(d1.cols \cup d2.cols,
            BagOfAll(LAMBDA p : MergedRow(p[1], p[2], keys, d1.cols, d2.cols, "both"),
                     bothBag)
            (+) BagOfAll(LAMBDA r : MergedRow(r, r, keys, d1.cols, d2.cols, "left"),
                         leftBag)
            (+) BagOfAll(LAMBDA q : MergedRow(q, q, keys, d1.cols, d2.cols, "right"),
                         rightBag))

\* the merge keys of the stored-data merge and of the gap filling
StoredKeys(write_package_name) ==
    IF write_package_name THEN {"date", "package", "category"} ELSE {"date", "category"}

NoDataKeys(write_package_name) ==
    IF write_package_name THEN {"date", "package"} ELSE {"date"}

\* _concat_with_stored_pypistat returning stat also when it is None
ConcatWithStoredOnlyIfFresh(stat, stat_stored, keys) ==
    IF stat.none \/ stat_stored.none THEN stat
    ELSE MergeDataFrames(stat, stat_stored, keys)

\* WritePypiStat._concat_with_stored_pypistat
ConcatWithStoredPypistat(stat, stat_stored, keys) ==
    IF stat.none THEN stat_stored
    ELSE IF stat_stored.none THEN stat
    ELSE MergeDataFrames(stat, stat_stored, keys)

\* _get_days with range(days) in place of range(days + 1)
GetDaysShort(stat_date) ==
    {StrftimeYmd(stat_date.start + i) : i \in 0..(stat_date.end - stat_date.start - 1)}

\* WritePypiStat._get_days
GetDays(stat_date) ==
    {StrftimeYmd(stat_date.start + i) : i \in 0..(stat_date.end - stat_date.start)}

\* the no_data frame of _concat_with_no_data, with or without its category
NoData(self, stat_date, with_category) ==
    DataFrame(
        {"date", "downloads"}
            \cup (IF self.write_package_name THEN {"package"} ELSE {})
            \cup (IF with_category THEN {"category"} ELSE {}),
        SetToBag({Row(d,
                      IF self.write_package_name THEN self.package_name ELSE NoCol,
                      IF with_category THEN NaNStr ELSE NoCol,
                      0) : d \in GetDays(stat_date)}))

\* _concat_with_no_data with the placeholders passed as dataf1
ConcatWithNoDataSwapped(self, stat, stat_date) ==
    IF ~stat.none
    THEN MergeDataFrames(NoData(self, stat_date, FALSE), stat,
                         NoDataKeys(self.write_package_name))
    ELSE SetDataFrameColumns(NoData(self, stat_date, TRUE))

\* _concat_with_no_data leaving a partition without a table as it is
ConcatWithNoDataKeepsNone(self, stat, stat_date) ==
    IF ~stat.none
    THEN MergeDataFrames(stat, NoData(self, stat_date, FALSE),
                         NoDataKeys(self.write_package_name))
    ELSE stat

\* WritePypiStat._concat_with_no_data
ConcatWithNoData(self, stat, stat_date) ==
    IF ~stat.none
    THEN MergeDataFrames(stat, NoData(self, stat_date, FALSE),
                         NoDataKeys(self.write_package_name))
    ELSE SetDataFrameColumns(NoData(self, stat_date, TRUE))

\* _filter_data_frame_rows dropping only the zero rows without a category
FilterPlaceholdersOnly(stat) ==
    LET typed == SetDataFrameColumns(stat)
        dedup == BagToSet(typed.rows)
        df_zero == {r \in dedup : r.downloads = 0 /\ r.category = "nan"}
        df_no_zero == {r \in dedup : r.downloads # 0}
        dropped == {r \in df_zero : r.date \in {q.date : q \in df_no_zero}}
    IN  [typed EXCEPT !.rows = SetToBag(dedup \ dropped)]

\* _filter_data_frame_rows dropping one copy of a repeated row, not all but one
FilterDropsOneCopy(stat) ==
    LET typed == SetDataFrameColumns(stat)
        dedup == BagToSet(typed.rows)
        df_zero == {r \in dedup : r.downloads = 0}
        df_no_zero == {r \in dedup : r.downloads # 0}
        dropped == {r \in df_zero : r.date \in {q.date : q \in df_no_zero}}
    IN  [typed EXCEPT !.rows =
            [r \in dedup \ dropped |->
                IF typed.rows[r] > 1 THEN typed.rows[r] - 1 ELSE 1]]

\* WritePypiStat._filter_data_frame_rows
FilterDataFrameRows(stat) ==
    LET typed == SetDataFrameColumns(stat)
        dedup == BagToSet(typed.rows)
        df_zero == {r \in dedup : r.downloads = 0}
        df_no_zero == {r \in dedup : r.downloads # 0}
        dropped == {r \in df_zero : r.date \in {q.date : q \in df_no_zero}}
    IN  [typed EXCEPT !.rows = SetToBag(dedup \ dropped)]

(***************************************************************************)
(* pypistat.py: the object, the provider call and the csv files            *)
(***************************************************************************)
\* WritePypiStat.__init__; outdir is whether a (non-empty) path is given
NewWritePypiStat(package_name, outdir) ==
    [package_name |-> package_name, outdir |-> outdir, date_period |-> "year",
     write_package_name |-> FALSE, merge_stored_data |-> TRUE, fill_no_data |-> TRUE,
     drop_total_row |-> TRUE]

\* stats.insert(0, "package", self._package_name), if self.write_package_name
InsertPackage(self, dataf) ==
    IF self.write_package_name
    THEN [dataf EXCEPT !.cols = @ \cup {"package"},
                       !.rows = BagOfAll(LAMBDA r : [r EXCEPT !.package = self.package_name],
                                         @)]
    ELSE dataf

\* _get_pypistat with "except Exception" in place of the two except clauses
GetPypistatCatchesAll(self, resp) ==
    IF resp.kind # "data" THEN Return(NoneDF)
    ELSE Return(SetDataFrameColumns(InsertPackage(self, resp.frame)))

\* WritePypiStat._get_pypistat on what the call of pypistats does, resp:
\* [kind |-> "data", frame] when it returns rows (here without the percent
\* column and the total row), or the kind of exception it raises
GetPypistat(self, resp) ==
    IF resp.kind \in {"ValueError", "IndexError"} THEN Return(NoneDF)
    ELSE IF resp.kind # "data" THEN Raise(resp.kind)
    ELSE Return(SetDataFrameColumns(InsertPackage(self, resp.frame)))

\* the place of a category in the order of strings: capitals come first
CategoryOrder(c) ==
    CASE c = "Total" -> 1
      [] c = "a" -> 2
      [] c = "null" -> 3
      [] OTHER -> 4

\* the place of the text of a date in the order of strings
DateOrder(d) == d[1] * 10000 + d[2] * 100 + d[3]

\* sort_values(["date", "category"]) can put row r before row q: by date,
\* a date None after all others, and by category where the dates are equal
SortsBefore(r, q) ==
    IF r.date = q.date THEN CategoryOrder(r.category) <= CategoryOrder(q.category)
    ELSE IF q.date = NoneDate THEN TRUE
    ELSE IF r.date = NoneDate THEN FALSE
    ELSE DateOrder(r.date) < DateOrder(q.date)

\* the rows sort_values can leave last: stats.iloc[-1]
LastRows(dataf) ==
    {q \in BagToSet(dataf.rows) : \A r \in BagToSet(dataf.rows) : SortsBefore(r, q)}

\* the total-row step dropping the last row whatever its date
DropLastRow(self, dataf, last) ==
    IF ~self.drop_total_row THEN Return(dataf)
    ELSE IF last = {} THEN Raise("IndexError")
    ELSE Return([dataf EXCEPT !.rows = @ (-) SetToBag(last)])

\* if self.drop_total_row and stats.iloc[-1]["date"] is None:
\*     stats = stats.head(-1)
\* last holds the last row of the sorted stats, and nothing if it is empty
DropTotalRow(self, dataf, last) ==
    IF ~self.drop_total_row THEN Return(dataf)
    ELSE IF last = {} THEN Raise("IndexError")
    ELSE IF \E q \in last : q.date = NoneDate
    THEN Return([dataf EXCEPT !.rows = @ (-) SetToBag(last)])
    ELSE Return(dataf)

\* _get_pypistat when pypistats returns the table dataf to it, total row included
GetPypistatOfTable(self, dataf, last) ==
    IF DropTotalRow(self, dataf, last).exc # "none"
    THEN Raise(DropTotalRow(self, dataf, last).exc)
    ELSE GetPypistat(self, [kind |-> "data",
                            frame |-> DropTotalRow(self, dataf, last).val])

\* the texts pd.read_csv reads as NaN, of those the files can hold
NaValues == {"", "nan", "null"}

ReadCsvDate(c) == IF Len(c) = 1 /\ c[1] \in NaValues THEN NaNDate ELSE c
ReadCsvStr(c) == IF c \in NaValues THEN NaNStr ELSE c

\* pd.read_csv(path, dtype={"downloads": int, "category": str})
ReadCsv(text) ==
    DataFrame(text.cols,
        BagOfAll(LAMBDA r :
                    [r EXCEPT !.date = ReadCsvDate(@),
                              !.package = IF "package" \in text.cols
                                          THEN ReadCsvStr(@) ELSE @,
                              !.category = IF "category" \in text.cols
                                           THEN ReadCsvStr(@) ELSE @],
                 text.rows))

ToCsvDate(c) == IF c = NaNDate THEN <<"">> ELSE c
ToCsvStr(c) == IF c = NaNStr THEN "" ELSE c

\* DataFrame.to_csv(path, index=False): the header and the lines of the file
ToCsv(dataf) ==
    [cols |-> dataf.cols,
     rows |-> BagOfAll(LAMBDA r :
                          [r EXCEPT !.date = ToCsvDate(@),
                                    !.package = IF "package" \in dataf.cols
                                                THEN ToCsvStr(@) ELSE @,
                                    !.category = IF "category" \in dataf.cols
                                                 THEN ToCsvStr(@) ELSE @],
                       dataf.rows)]

\* os.path.exists(os.path.join(self.outdir, stat_file)), fs the files of outdir
Exists(fs, stat_file) == \E f \in fs : f.file = stat_file

\* _get_stored_pypistat reading the file whether or not outdir is set
GetStoredPypistatAnyDir(self, fs, stat_file) ==
    IF Exists(fs, stat_file)
    THEN SetDataFrameColumns(ReadCsv((CHOOSE f \in fs : f.file = stat_file).text))
    ELSE NoneDF

\* WritePypiStat._get_stored_pypistat
GetStoredPypistat(self, fs, stat_file) ==
    IF self.outdir /\ Exists(fs, stat_file)
    THEN SetDataFrameColumns(ReadCsv((CHOOSE f \in fs : f.file = stat_file).text))
    ELSE NoneDF

\* _write_csv that writes an empty file for a partition without a table
WriteCsvNoneAsEmpty(self, fs, stat, stat_file) ==
    IF self.outdir
    THEN {f \in fs : f.file # stat_file}
         \cup {[file |-> stat_file,
                text |-> ToCsv(FilterDataFrameRows(
                            IF stat.none THEN DataFrame({"date", "downloads"}, EmptyBag)
                            ELSE stat))]}
    ELSE fs

\* _write_csv without the call of _filter_data_frame_rows
WriteCsvUnfiltered(self, fs, stat, stat_file) ==
    IF ~stat.none /\ self.outdir
    THEN {f \in fs : f.file # stat_file}
         \cup {[file |-> stat_file, text |-> ToCsv(stat)]}
    ELSE fs

\* WritePypiStat._write_csv: the files of outdir after it
WriteCsv(self, fs, stat, stat_file) ==
    IF ~stat.none /\ self.outdir
    THEN {f \in fs : f.file # stat_file}
         \cup {[file |-> stat_file, text |-> ToCsv(FilterDataFrameRows(stat))]}
    ELSE fs

\* the reconciliation that lets go of the stored table when there is a fresh one
ReconciledFreshOnly(self, fs, stat_file, fresh) ==
    IF self.merge_stored_data /\ fresh.none
    THEN GetStoredPypistat(self, fs, stat_file)
    ELSE fresh

\* the body of _get_pypistat_by_none after the fetch: the stored data
Reconciled(self, fs, stat_file, fresh) ==
    IF self.merge_stored_data
    THEN ConcatWithStoredPypistat(fresh, GetStoredPypistat(self, fs, stat_file),
                                  StoredKeys(self.write_package_name))
    ELSE fresh

\* and the gap filling
Filled(self, stat, stat_date) ==
    IF self.fill_no_data THEN ConcatWithNoData(self, stat, stat_date) ELSE stat

\* write_pypistat with date_period none on the files fs, when _get_pypistat
\* returns fresh: the files after it
FilesAfter(self, fs, stat_date, stat_file, fresh) ==
    WriteCsv(self, fs, Filled(self, Reconciled(self, fs, stat_file, fresh), stat_date),
             stat_file)

\* os.makedirs(self.outdir, exist_ok=True) in _write_csv
MakeDirs(self, was_made, stat) == was_made \/ (~stat.none /\ self.outdir)

\* _write_pypistats with _write_csv called as soon as a partition is gathered
AfterGatherWriteEach(gathered, total) == "write"

\* _write_pypistats: the walk gathers partition after partition, and only
\* when it has returned does the loop over _write_csv begin
AfterGather(gathered, total) == IF gathered < total THEN "fetch" ELSE "write"

\* no partition is being gathered
NoCur ==
    [stat |-> NoneDF, fresh |-> NoneDF, stored |-> NoneDF, existed |-> FALSE,
     resp |-> "none"]

\* the variables of Spec, at rest
PipeIdle ==
    /\ wps = NewWritePypiStat("p", FALSE)
    /\ files = {}
    /\ made = FALSE
    /\ pc = "off"
    /\ given = <<NoneStr, NoneStr>>
    /\ args = [stat_type |-> "overall", postfix |-> NoneStr, start_date |-> 0,
               end_date |-> 0]
    /\ parts = <<>>
    /\ cur = NoCur
    /\ stats = <<>>
    /\ written = 0
    /\ log = <<>>
    /\ runs = 0
    /\ exc = "none"

\* no StatDate object
NoStatDate == [live |-> FALSE, start |-> 0, end |-> 0]

\* the variables of SpecDate, at rest
DateIdle ==
    /\ sd_obj = NoStatDate
    /\ sd_prev = NoStatDate
    /\ sd_call = [op |-> "off", start |-> NoneStr, end |-> NoneStr, now |-> 0]
    /\ sd_ret = Return(0)
    /\ sd_n = 0

\* the variables of SpecOps, at rest
OpsIdle ==
    /\ op_a = NoneDF
    /\ op_b = NoneDF
    /\ op_keys = {}
    /\ op_out1 = NoneDF
    /\ op_out2 = NoneDF
    /\ op_pc = "off"

\* the variables of SpecFetch, at rest
FetchIdle ==
    /\ ft_self = NewWritePypiStat("p", FALSE)
    /\ ft_raw = NoneDF
    /\ ft_last = {}
    /\ ft_ret = Return(NoneDF)
    /\ ft_pc = "off"

\* no call of write_pypistat yet
NoRun ==
    [made |-> FALSE, again |-> FALSE, stat_date |-> [start |-> 0, end |-> 0],
     resp |-> [kind |-> "none", frame |-> NoneDF], before |-> {}, exc |-> "none"]

\* the variables of SpecRerun, at rest
RerunIdle ==
    /\ rr_self = NewWritePypiStat("p", FALSE)
    /\ rr_files = {}
    /\ rr_last = NoRun

(***************************************************************************)
(* SpecSeg: one call of the segmenter on a range drawn from SegDates.      *)
(***************************************************************************)
\* the ranges start and end in the years 2020 .. 2020 + SegYears
SegYears == 2

SegDates ==
    {Datetime(y, md[1], md[2]) :
        y \in 2020..(2020 + SegYears),
        md \in {<<1, 1>>, <<2, 10>>, <<11, 15>>, <<12, 31>>}}

PypiStatType == {"overall", "system"}

Postfixes == {NoneStr, <<"pf">>}

SegArgs ==
    [date_period : StatPeriod, stat_type : PypiStatType, postfix : Postfixes,
     start_date : SegDates, end_date : SegDates]

\* the variables of the other specifications, at rest
RecIdle ==
    /\ rec_self = [write_package_name |-> FALSE, merge_stored_data |-> TRUE,
                   fill_no_data |-> TRUE, package_name |-> "p"]
    /\ rec_date = [start |-> 0, end |-> 0]
    /\ rec_fresh = NoneDF
    /\ rec_stored = NoneDF
    /\ rec_merged = NoneDF
    /\ rec_filled = NoneDF
    /\ rec_final = NoneDF
    /\ rec_pc = "idle"

SegIdle ==
    /\ seg_args = [date_period |-> "none", stat_type |-> "overall", postfix |-> NoneStr,
                   start_date |-> 0, end_date |-> 0]
    /\ seg_stats = LoopInit(0)
    /\ seg_pc = "idle"

InitSeg ==
    /\ seg_args \in {a \in SegArgs : a.start_date <= a.end_date}
    /\ seg_stats = LoopInit(seg_args.start_date)
    /\ seg_pc = "call"
    /\ RecIdle
    /\ PipeIdle
    /\ DateIdle
    /\ OpsIdle
    /\ FetchIdle
    /\ RerunIdle

CallByDay ==
    /\ seg_pc = "call"
    /\ seg_args.date_period = "day"
    /\ seg_stats' = GetPypistatByDay(seg_args)
    /\ seg_pc' = "done"
    /\ UNCHANGED <<seg_args, rec_vars, pipe_vars,
                   date_vars, ops_vars, fetch_vars, rerun_vars>>

CallByMonth ==
    /\ seg_pc = "call"
    /\ seg_args.date_period = "month"
    /\ seg_stats' = GetPypistatByMonth(seg_args)
    /\ seg_pc' = "done"
    /\ UNCHANGED <<seg_args, rec_vars, pipe_vars,
                   date_vars, ops_vars, fetch_vars, rerun_vars>>

CallByYear ==
    /\ seg_pc = "call"
    /\ seg_args.date_period = "year"
    /\ seg_stats' = GetPypistatByYear(seg_args)
    /\ seg_pc' = "done"
    /\ UNCHANGED <<seg_args, rec_vars, pipe_vars,
                   date_vars, ops_vars, fetch_vars, rerun_vars>>

CallByNone ==
    /\ seg_pc = "call"
    /\ seg_args.date_period = "none"
    /\ seg_stats' = GetPypistatByNone(seg_args)
    /\ seg_pc' = "done"
    /\ UNCHANGED <<seg_args, rec_vars, pipe_vars,
                   date_vars, ops_vars, fetch_vars, rerun_vars>>

NextSeg == CallByDay \/ CallByMonth \/ CallByYear \/ CallByNone

SpecSeg == InitSeg /\ [][NextSeg]_vars

(***************************************************************************)
(* Claims about the segmenter (SpecSeg)                                    *)
(***************************************************************************)
SegDone == seg_pc = "done" /\ seg_stats.exc = "none"

SubRange(k) == seg_stats.stats[k].stat_date

\* the sub-ranges are in order, contiguous, disjoint, and cover [s, e]
Tiles(sts, s, e) ==
    /\ Len(sts) >= 1
    /\ sts[1].stat_date.start = s
    /\ sts[Len(sts)].stat_date.end = e
    /\ \A k \in 1..Len(sts) : sts[k].stat_date.start <= sts[k].stat_date.end
    /\ \A k \in 1..(Len(sts) - 1) :
          sts[k + 1].stat_date.start = sts[k].stat_date.end + 1

\* C1: for every valid range and every granularity the emitted sub-ranges are
\* chronological, contiguous and non-overlapping and their union is the range.
C1_SegmentsTileRange ==
    seg_pc = "done" =>
        /\ seg_stats.exc = "none"
        /\ Tiles(seg_stats.stats, seg_args.start_date, seg_args.end_date)

\* the calendar months (year, month) the range touches
MonthsTouched(s, e) == {<<YearOf(d), MonthOf(d)>> : d \in s..e}

\* C2: with month granularity there is exactly one sub-range per calendar
\* month (year and month) touched; each runs from the cursor to
\* min(last day of its month, range.end) and is labelled YYYY-MM.
C2_OneSubRangePerMonth ==
    (seg_pc = "done" /\ seg_args.date_period = "month") =>
        /\ seg_stats.exc = "none"
        /\ Len(seg_stats.stats) =
              Cardinality(MonthsTouched(seg_args.start_date, seg_args.end_date))
        /\ \A k \in 1..Len(seg_stats.stats) :
              LET sd == SubRange(k)
                  y == YearOf(sd.start)
                  m == MonthOf(sd.start)
              IN  /\ sd.start = IF k = 1 THEN seg_args.start_date
                                ELSE SubRange(k - 1).end + 1
                  /\ sd.end = Min(Datetime(y, m, MonthRange(y, m)), seg_args.end_date)
                  /\ seg_stats.stats[k].stat_file.prefix = <<y, m>>

\* C3: with year granularity there is exactly one sub-range per calendar year
\* touched; the k-th ends at min(Dec 31 of its year, range.end), the next one
\* starts on Jan 1 of the following year, and the label carries the year;
\* 2021-11-15..2022-02-10 gives 2021-11-15..2021-12-31 and 2022-01-01..2022-02-10.
C3_OneSubRangePerYear ==
    (seg_pc = "done" /\ seg_args.date_period = "year") =>
        LET s == seg_args.start_date
            e == seg_args.end_date
            n == YearOf(e) - YearOf(s) + 1
        IN  /\ seg_stats.exc = "none"
            /\ Len(seg_stats.stats) = n
            /\ \A k \in 1..n :
                  LET y == YearOf(s) + k - 1
                  IN  /\ SubRange(k).start = IF k = 1 THEN s ELSE Datetime(y, 1, 1)
                      /\ SubRange(k).end = Min(Datetime(y, 12, 31), e)
                      /\ seg_stats.stats[k].stat_file.prefix = <<y>>
            /\ (s = Datetime(2021, 11, 15) /\ e = Datetime(2022, 2, 10)) =>
                  /\ n = 2
                  /\ SubRange(1) = [start |-> Datetime(2021, 11, 15),
                                    end |-> Datetime(2021, 12, 31)]
                  /\ SubRange(2) = [start |-> Datetime(2022, 1, 1),
                                    end |-> Datetime(2022, 2, 10)]

C3_Witness ==
    /\ SegDone
    /\ seg_args.date_period = "year"
    /\ seg_args.start_date = Datetime(2021, 11, 15)
    /\ seg_args.end_date = Datetime(2022, 2, 10)
    /\ Len(seg_stats.stats) = 2

\* C1 holds of the day, year and none walks, and of a month walk that meets
\* no month number twice.
SegmentsTileRangeButMonth ==
    (seg_pc = "done" /\ (seg_args.date_period # "month"
                          \/ seg_args.end_date - seg_args.start_date < 300)) =>
        /\ seg_stats.exc = "none"
        /\ Tiles(seg_stats.stats, seg_args.start_date, seg_args.end_date)

(***************************************************************************)
(* SpecRec: the steps one partition goes through between the fetch and the *)
(* write, on a fetched frame and a stored frame drawn from bounded sets.   *)
(***************************************************************************)
\* the most rows a fetched or stored frame has
MaxRows == 2

RecDates == {Datetime(2022, 1, 1), Datetime(2022, 1, 2)}

Packages == {"p", "q"}

\* the provider reports an unknown category as the text "null"
FreshCategories == {"null", "a"}
\* read_csv reads an empty, "null" or "nan" category as NaN, astype(str) makes it "nan"
StoredCategories == {"nan", "a"}

FreshDownloads == {0, 7}
StoredDownloads == {0, 5}

DFCols(write_package_name) ==
    {"date", "category", "downloads"}
        \cup (IF write_package_name THEN {"package"} ELSE {})

\* the frames of at most MaxRows rows over a set of rows, no key twice
Frames(rows, keys, cols) ==
    {DataFrame(cols, SetToBag(t)) :
        t \in {u \in SUBSET rows :
                 /\ Cardinality(u) <= MaxRows
                 /\ \A r, q \in u : KeyOf(r, keys) = KeyOf(q, keys) => r = q}}

\* what _get_pypistat can return for a sub-range: None, or the provider's rows
\* of the days of the sub-range, typed by _set_data_frame_columns
FreshFrames(self, stat_date) ==
    {NoneDF} \cup
    Frames({Row(d, IF self.write_package_name THEN self.package_name ELSE NoCol, c, n) :
               d \in GetDays(stat_date), c \in FreshCategories, n \in FreshDownloads},
           {"date", "category"}, DFCols(self.write_package_name))

\* what _get_stored_pypistat can return: None, or the rows of a file written
\* by earlier runs, of any day and, with the package column, of any package
StoredFrames(self) ==
    {NoneDF} \cup
    Frames({Row(StrftimeYmd(d), pk, c, n) :
               d \in RecDates,
               pk \in (IF self.write_package_name THEN Packages ELSE {NoCol}),
               c \in StoredCategories, n \in StoredDownloads},
           StoredKeys(self.write_package_name), DFCols(self.write_package_name))

InitRec ==
    /\ rec_self \in [write_package_name : BOOLEAN, merge_stored_data : BOOLEAN,
                     fill_no_data : BOOLEAN, package_name : {"p"}]
    /\ rec_date \in {sd \in [start : RecDates, end : RecDates] : sd.start <= sd.end}
    /\ rec_fresh \in FreshFrames(rec_self, rec_date)
    /\ rec_stored \in (IF rec_self.merge_stored_data THEN StoredFrames(rec_self)
                       ELSE {NoneDF})
    /\ rec_merged = NoneDF
    /\ rec_filled = NoneDF
    /\ rec_final = NoneDF
    /\ rec_pc = "fetched"
    /\ SegIdle
    /\ PipeIdle
    /\ DateIdle
    /\ OpsIdle
    /\ FetchIdle
    /\ RerunIdle

\* if self.merge_stored_data: stat = _concat_with_stored_pypistat(...)
RecConcatWithStored ==
    /\ rec_pc = "fetched"
    /\ rec_self.merge_stored_data
    /\ rec_merged' = ConcatWithStoredPypistat(rec_fresh, rec_stored,
                                              StoredKeys(rec_self.write_package_name))
    /\ rec_pc' = "merged"
    /\ UNCHANGED <<rec_self, rec_date, rec_fresh, rec_stored, rec_filled, rec_final,
                   seg_vars, pipe_vars,
                   date_vars, ops_vars, fetch_vars, rerun_vars>>

RecSkipStored ==
    /\ rec_pc = "fetched"
    /\ ~rec_self.merge_stored_data
    /\ rec_merged' = rec_fresh
    /\ rec_pc' = "merged"
    /\ UNCHANGED <<rec_self, rec_date, rec_fresh, rec_stored, rec_filled, rec_final,
                   seg_vars, pipe_vars,
                   date_vars, ops_vars, fetch_vars, rerun_vars>>

\* if self.fill_no_data: stat = self._concat_with_no_data(stat, stat_date)
RecConcatWithNoData ==
    /\ rec_pc = "merged"
    /\ rec_self.fill_no_data
    /\ rec_filled' = ConcatWithNoData(rec_self, rec_merged, rec_date)
    /\ rec_pc' = "filled"
    /\ UNCHANGED <<rec_self, rec_date, rec_fresh, rec_stored, rec_merged, rec_final,
                   seg_vars, pipe_vars,
                   date_vars, ops_vars, fetch_vars, rerun_vars>>

RecSkipNoData ==
    /\ rec_pc = "merged"
    /\ ~rec_self.fill_no_data
    /\ rec_filled' = rec_merged
    /\ rec_pc' = "filled"
    /\ UNCHANGED <<rec_self, rec_date, rec_fresh, rec_stored, rec_merged, rec_final,
                   seg_vars, pipe_vars,
                   date_vars, ops_vars, fetch_vars, rerun_vars>>

\* _write_csv: if stat is not None: stat = _filter_data_frame_rows(stat)
RecFilter ==
    /\ rec_pc = "filled"
    /\ ~rec_filled.none
    /\ rec_final' = FilterDataFrameRows(rec_filled)
    /\ rec_pc' = "filtered"
    /\ UNCHANGED <<rec_self, rec_date, rec_fresh, rec_stored, rec_merged, rec_filled,
                   seg_vars, pipe_vars,
                   date_vars, ops_vars, fetch_vars, rerun_vars>>

NextRec ==
    \/ RecConcatWithStored
    \/ RecSkipStored
    \/ RecConcatWithNoData
    \/ RecSkipNoData
    \/ RecFilter

SpecRec == InitRec /\ [][NextRec]_vars

(***************************************************************************)
(* Claims about the reconciliation of one partition (SpecRec)              *)
(***************************************************************************)
\* the calendar days of a sub-range, as the date texts of the rows
SubRangeDays(stat_date) == {StrftimeYmd(n) : n \in stat_date.start..stat_date.end}

\* the rows of a frame as values: the texts "null" and "nan" are the missing value
ValueRows(dataf) == BagToSet(BagOfAll(ReplaceRow, dataf.rows))

RecKeys == StoredKeys(rec_self.write_package_name)

\* C4: when a fresh and a stored table both exist, the reconciled table has
\* one row per key (date, category, plus package with tagging) of the union
\* of the two key sets; a key of the fresh table carries the fresh downloads,
\* a key of the stored table alone the stored downloads; stored 2022-01-01,,5
\* and fresh 2022-01-01,,7 give 2022-01-01,,7.
C4_FreshWinsOnCollision ==
    (rec_pc # "fetched" /\ rec_self.merge_stored_data
        /\ ~rec_fresh.none /\ ~rec_stored.none) =>
        LET F == ValueRows(rec_fresh)
            S == ValueRows(rec_stored)
            M == BagToSet(rec_merged.rows)
        IN  /\ ~rec_merged.none
            /\ {KeyOf(r, RecKeys) : r \in M} = {KeyOf(r, RecKeys) : r \in F \cup S}
            /\ \A r \in M : rec_merged.rows[r] = 1
            /\ \A r, q \in M : KeyOf(r, RecKeys) = KeyOf(q, RecKeys) => r = q
            /\ \A f \in F : \E r \in M :
                  KeyOf(r, RecKeys) = KeyOf(f, RecKeys) /\ r.downloads = f.downloads
            /\ \A t \in S :
                  (\A f \in F : KeyOf(f, RecKeys) # KeyOf(t, RecKeys)) =>
                      \E r \in M : KeyOf(r, RecKeys) = KeyOf(t, RecKeys)
                                   /\ r.downloads = t.downloads
            /\ (F = {Row(<<2022, 1, 1>>, NoCol, NaNStr, 7)}
                    /\ S = {Row(<<2022, 1, 1>>, NoCol, NaNStr, 5)}) =>
                  M = {Row(<<2022, 1, 1>>, NoCol, NaNStr, 7)}

\* a key in both tables with different downloads, and a key of the stored one alone
C4_Witness ==
    /\ rec_pc = "merged"
    /\ rec_self.merge_stored_data
    /\ ~rec_fresh.none
    /\ ~rec_stored.none
    /\ \E f \in ValueRows(rec_fresh), t \in ValueRows(rec_stored) :
          /\ KeyOf(f, RecKeys) = KeyOf(t, RecKeys)
          /\ f.downloads = 7
          /\ t.downloads = 5
    /\ \E t \in ValueRows(rec_stored) :
          \A f \in ValueRows(rec_fresh) : KeyOf(f, RecKeys) # KeyOf(t, RecKeys)

\* the placeholder row of a day
Placeholder(self, d) ==
    Row(d, IF self.write_package_name THEN self.package_name ELSE NoCol, NaNStr, 0)

\* the days of the sub-range whose key (date, plus package with tagging) has
\* no row in the frame
DaysWithoutRow(self, dataf, stat_date) ==
    {d \in SubRangeDays(stat_date) :
        ~\E r \in BagToSet(dataf.rows) :
            /\ r.date = d
            /\ (self.write_package_name => r.package = self.package_name)}

\* C5: gap-filling a partition that has a reconciled table keeps every row
\* of it with its category and downloads (the category as a value: a textual
\* "null" or "nan" is the missing category) and adds exactly one placeholder
\* (downloads 0, category missing) for each day of the sub-range whose key
\* has no row in the reconciled table.
C5_GapFillOnlyAddsPlaceholders ==
    (rec_pc \in {"filled", "filtered"} /\ rec_self.fill_no_data /\ ~rec_merged.none) =>
        /\ ~rec_filled.none
        /\ rec_filled.rows =
              BagOfAll(ReplaceRow, rec_merged.rows)
              (+) SetToBag({Placeholder(rec_self, d) :
                              d \in DaysWithoutRow(rec_self, rec_merged, rec_date)})

\* a reconciled table with a real zero row on one day and no row on another
C5_Witness ==
    /\ rec_pc = "filled"
    /\ rec_self.fill_no_data
    /\ ~rec_merged.none
    /\ \E r \in BagToSet(rec_merged.rows) :
          r.downloads = 0 /\ r.category = "a" /\ r.date \in SubRangeDays(rec_date)
    /\ DaysWithoutRow(rec_self, rec_merged, rec_date) # {}
    /\ BagCardinality(rec_filled.rows) > BagCardinality(rec_merged.rows)

\* C6: with gap-filling enabled the finalized table of a partition has at
\* least one row for every day of the sub-range, whatever was fetched and
\* stored (and there always is a table to finalize).
C6_EveryDayHasARow ==
    /\ (rec_pc = "filled" /\ rec_self.fill_no_data) => ~rec_filled.none
    /\ (rec_pc = "filtered" /\ rec_self.fill_no_data) =>
          \A d \in SubRangeDays(rec_date) :
              \E r \in BagToSet(rec_final.rows) : r.date = d

\* a finalized two-day partition with a real row on one day, a placeholder on the other
C6_Witness ==
    /\ rec_pc = "filtered"
    /\ rec_self.fill_no_data
    /\ rec_date.start < rec_date.end
    /\ \E r \in BagToSet(rec_final.rows) : r.downloads # 0 /\ r.date \in SubRangeDays(rec_date)
    /\ \E r \in BagToSet(rec_final.rows) :
          r.downloads = 0 /\ r.category = "nan" /\ r.date \in SubRangeDays(rec_date)

\* C7: after finalize no date has both a zero and a non-zero row: the zero
\* rows of a date with a non-zero row are all removed, whatever their
\* category or package; every non-zero row is kept, and so are the zero rows
\* of the dates without a non-zero row.
C7_NoZeroRowBesideNonZero ==
    rec_pc = "filtered" =>
        LET T == BagToSet(SetDataFrameColumns(rec_filled).rows)
            F == BagToSet(rec_final.rows)
        IN  /\ \A r, q \in F : r.date = q.date => (r.downloads = 0 <=> q.downloads = 0)
            /\ F \subseteq T
            /\ \A r \in T : r.downloads # 0 => r \in F
            /\ \A r \in T :
                  r.downloads = 0 =>
                      (r \in F <=> ~\E q \in T : q.date = r.date /\ q.downloads # 0)

\* a real zero row (it has a category) removed for a non-zero row of its date
C7_Witness ==
    /\ rec_pc = "filtered"
    /\ \E r \in BagToSet(SetDataFrameColumns(rec_filled).rows) :
          /\ r.downloads = 0
          /\ r.category = "a"
          /\ r \notin BagToSet(rec_final.rows)
    /\ \E r \in BagToSet(rec_final.rows) : r.downloads = 0

(***************************************************************************)
(* Spec: a WritePypiStat object, the files of its output directory and its *)
(* calls of write_pypistat, step by step.  The object is configured before *)
(* its first call; the directory starts without files, or with one file    *)
(* that has a header and no lines.                                         *)
(***************************************************************************)
\* the calls of write_pypistat in a behaviour
MaxRuns == 2

\* the most rows the provider returns for a sub-range
MaxFetched == 1

\* the date strings the calls are made with, <<start_date, end_date>>: two
\* days across the turn of the year, three days of January, a start after
\* the end, a day that does not exist, a month that does not exist and
\* strings of four tokens
PipeRanges ==
    {<<<<2021, 12, 31>>, <<2022, 1, 1>>>>,
     <<<<2022, 1, 1>>, <<2022, 1, 3>>>>,
     <<<<2022, 1, 2>>, <<2022, 1, 1>>>>,
     <<<<2022, 2, 29>>, <<2022, 3, 1>>>>,
     <<<<2022, 1, 1>>, <<2022, 13>>>>,
     <<<<2022, 1, 1, 1>>, <<2022, 1, 3>>>>,
     <<<<2022, 1, 1>>, <<2022, 1, 3, 5>>>>}

\* what outdir holds before the first call: nothing, or a file of the year
\* 2022 with its header and no lines
InitialFiles ==
    {{},
     {[file |-> StatFile(<<2022>>, NoneStr, "overall"),
       text |-> [cols |-> {"date", "category", "downloads"}, rows |-> EmptyBag]]}}

\* datetime.now() during the calls
Now == Datetime(2022, 1, 4)

\* category and downloads of the rows the provider can have for a day: 7
\* downloads of the unknown category, which it reports as the text "null",
\* and no download of category "a"
PipeCells == {<<"null", 7>>, <<"a", 0>>}

\* the rows the provider has for a sub-range: date, category, downloads
ProviderFrames(stat_date) ==
    {DataFrame({"date", "category", "downloads"}, SetToBag(t)) :
        t \in {u \in SUBSET {Row(StrftimeYmd(d), NoCol, c[1], c[2]) :
                               d \in stat_date.start..stat_date.end, c \in PipeCells} :
                 u # {} /\ Cardinality(u) <= MaxFetched}}

\* what the call of pypistats can do: return rows, have no data (ValueError,
\* IndexError) or fail (any other exception, here HTTPError)
ProviderResponses(stat_date) ==
    {[kind |-> k, frame |-> NoneDF] : k \in {"ValueError", "IndexError", "HTTPError"}}
    \cup {[kind |-> "data", frame |-> f] : f \in ProviderFrames(stat_date)}

Init ==
    /\ wps \in {NewWritePypiStat("p", o) : o \in BOOLEAN}
    /\ files \in InitialFiles
    /\ made = (files # {})
    /\ pc = "idle"
    /\ given = <<NoneStr, NoneStr>>
    /\ args = [stat_type |-> "overall", postfix |-> NoneStr, start_date |-> 0,
               end_date |-> 0]
    /\ parts = <<>>
    /\ cur = NoCur
    /\ stats = <<>>
    /\ written = 0
    /\ log = <<>>
    /\ runs = 0
    /\ exc = "none"
    /\ SegIdle
    /\ RecIdle
    /\ DateIdle
    /\ OpsIdle
    /\ FetchIdle
    /\ RerunIdle

\* the property setters
Configure(field, value) ==
    /\ pc = "idle"
    /\ runs = 0
    /\ wps' = [wps EXCEPT ![field] = value]
    /\ UNCHANGED <<files, made, pc, given, args, parts, cur, stats, written, log, runs,
                   exc, seg_vars, rec_vars,
                   date_vars, ops_vars, fetch_vars, rerun_vars>>

SetOutdir == \E o \in BOOLEAN : Configure("outdir", o)

SetDatePeriod == \E p \in StatPeriod : Configure("date_period", p)

SetWritePackageName == \E b \in BOOLEAN : Configure("write_package_name", b)

SetMergeStoredData == \E b \in BOOLEAN : Configure("merge_stored_data", b)

SetFillNoData == \E b \in BOOLEAN : Configure("fill_no_data", b)

\* the exception e leaves write_pypistat after the loop over _write_csv has
\* run on what was gathered
RaiseOutWritesGathered(e) ==
    /\ pc' = IF pc # "idle" /\ Len(stats) > 0 THEN "write" ELSE "idle"
    /\ exc' = e

\* the exception e leaves write_pypistat
RaiseOut(e) ==
    /\ pc' = "idle"
    /\ exc' = e

\* _write_pypistats begins: the walk of the range a starts
BeginWalk(a) ==
    /\ args' = a
    /\ parts' = Segment(wps.date_period, a).stats
    /\ pc' = "fetch"
    /\ exc' = "none"

\* write_pypistat after stat_date = StatDate(start=start_date, end=end_date)
BeginCall(sd, stat_type, postfix) ==
    IF sd.exc # "none"
    THEN RaiseOut(sd.exc) /\ UNCHANGED <<args, parts>>
    ELSE BeginWalk([stat_type |-> stat_type, postfix |-> postfix,
                    start_date |-> sd.val.start, end_date |-> sd.val.end])

\* write_pypistat(stat_type, start_date, end_date, postfix) is called
WritePypistat ==
    /\ pc = "idle"
    /\ runs < MaxRuns
    /\ \E stat_type \in {"overall"}, range \in PipeRanges, postfix \in {NoneStr} :
          /\ given' = range
          /\ BeginCall(StatDateInit(range[1], range[2], Now), stat_type, postfix)
    /\ runs' = runs + 1
    /\ cur' = NoCur
    /\ stats' = <<>>
    /\ written' = 0
    /\ log' = <<>>
    /\ UNCHANGED <<wps, files, made, seg_vars, rec_vars,
                   date_vars, ops_vars, fetch_vars, rerun_vars>>

\* the partition the walk is at
Part == parts[Len(stats) + 1]

\* the walk calling _get_pypistat again when it returned None
AfterFetchRetry(stat) == IF stat.none THEN "fetch" ELSE "stored"

\* the walk after stat = self._get_pypistat(...): it goes on to the stored
\* data, whatever stat is
AfterFetch(stat) == "stored"

\* stat = self._get_pypistat(stat_type, stat_date), r what it does when the
\* call of pypistats does what kind says
Fetched(r, kind) ==
    IF r.exc # "none"
    THEN RaiseOut(r.exc) /\ cur' = [NoCur EXCEPT !.resp = kind]
    ELSE /\ cur' = [stat |-> r.val, fresh |-> r.val, stored |-> NoneDF,
                    existed |-> FALSE, resp |-> kind]
         /\ pc' = AfterFetch(r.val)
         /\ UNCHANGED exc

GetPypistatStep ==
    /\ pc = "fetch"
    /\ \E resp \in ProviderResponses(Part.stat_date) :
          Fetched(GetPypistat(wps, resp), resp.kind)
    /\ log' = Append(log, <<"fetch", Len(stats) + 1>>)
    /\ UNCHANGED <<wps, files, made, given, args, parts, stats, written, runs,
                   seg_vars, rec_vars,
                   date_vars, ops_vars, fetch_vars, rerun_vars>>

\* pd.merge raises a KeyError for a key that is not a column of both frames
MergeKeyError(cols1, cols2, keys) == ~(keys \subseteq cols1 /\ keys \subseteq cols2)

\* what pd.read_csv can do in _get_stored_pypistat: it is called for a file
\* that exists, and can then fail (a file that cannot be opened or parsed)
ReadOutcomes(self, fs, stat_file) ==
    IF self.outdir /\ Exists(fs, stat_file) THEN {"read", "OSError"} ELSE {"read"}

\* stat = _concat_with_stored_pypistat(stat, stat_stored, keys), after
\* pd.read_csv did what outcome says
Stored(stat_stored, keys, outcome) ==
    IF outcome # "read"
    THEN RaiseOut(outcome) /\ UNCHANGED cur
    ELSE IF ~cur.stat.none /\ ~stat_stored.none
               /\ MergeKeyError(cur.stat.cols, stat_stored.cols, keys)
         THEN RaiseOut("KeyError") /\ UNCHANGED cur
         ELSE /\ cur' = [cur EXCEPT
                            !.stat = ConcatWithStoredPypistat(@, stat_stored, keys),
                            !.stored = stat_stored,
                            !.existed = wps.outdir /\ Exists(files, Part.stat_file)]
              /\ pc' = "fill"
              /\ UNCHANGED exc

\* if self.merge_stored_data: stat = _concat_with_stored_pypistat(stat,
\*     self._get_stored_pypistat(stat_file), keys)
StoredStep ==
    /\ pc = "stored"
    /\ IF wps.merge_stored_data
       THEN \E outcome \in ReadOutcomes(wps, files, Part.stat_file) :
               Stored(GetStoredPypistat(wps, files, Part.stat_file),
                      StoredKeys(wps.write_package_name), outcome)
       ELSE /\ cur' = [cur EXCEPT !.existed = wps.outdir /\ Exists(files, Part.stat_file)]
            /\ pc' = "fill"
            /\ UNCHANGED exc
    /\ log' = IF wps.merge_stored_data THEN Append(log, <<"stored", Len(stats) + 1>>)
              ELSE log
    /\ UNCHANGED <<wps, files, made, given, args, parts, stats, written, runs,
                   seg_vars, rec_vars,
                   date_vars, ops_vars, fetch_vars, rerun_vars>>

\* if self.fill_no_data: stat = self._concat_with_no_data(stat, stat_date)
\* stats.append({"stat": stat, "stat_file": stat_file})
FillStep ==
    /\ pc = "fill"
    /\ IF wps.fill_no_data /\ ~cur.stat.none
          /\ MergeKeyError(cur.stat.cols, NoDataKeys(wps.write_package_name),
                           NoDataKeys(wps.write_package_name))
       THEN RaiseOut("KeyError") /\ UNCHANGED stats
       ELSE /\ stats' = Append(stats,
                               [stat |-> IF wps.fill_no_data
                                         THEN ConcatWithNoData(wps, cur.stat,
                                                               Part.stat_date)
                                         ELSE cur.stat,
                                stat_file |-> Part.stat_file,
                                stat_date |-> Part.stat_date,
                                fresh |-> cur.fresh,
                                stored |-> cur.stored,
                                existed |-> cur.existed])
            /\ pc' = AfterGather(Len(stats) + 1, Len(parts))
            /\ UNCHANGED exc
    /\ cur' = NoCur
    /\ log' = IF wps.fill_no_data THEN Append(log, <<"fill", Len(stats) + 1>>) ELSE log
    /\ UNCHANGED <<wps, files, made, given, args, parts, written, runs,
                   seg_vars, rec_vars,
                   date_vars, ops_vars, fetch_vars, rerun_vars>>

\* the steps of _write_csv on element j of stats: none for a partition
\* without a table or an object without outdir
WriteCsvLog(self, stat, j) ==
    IF ~stat.none /\ self.outdir
    THEN <<<<"write", j>>, <<"makedirs", j>>, <<"finalize", j>>, <<"to_csv", j>>>>
    ELSE <<<<"write", j>>>>

\* for stat in stats: self._write_csv(stat["stat"], stat["stat_file"])
WriteCsvStep ==
    /\ pc = "write"
    /\ files' = WriteCsv(wps, files, stats[written + 1].stat, stats[written + 1].stat_file)
    /\ made' = MakeDirs(wps, made, stats[written + 1].stat)
    /\ written' = written + 1
    /\ pc' = IF written + 1 < Len(stats) THEN "write" ELSE "idle"
    /\ log' = log \o WriteCsvLog(wps, stats[written + 1].stat, written + 1)
    /\ UNCHANGED <<wps, given, args, parts, cur, stats, runs, exc, seg_vars, rec_vars,
                   date_vars, ops_vars, fetch_vars, rerun_vars>>

Next ==
    \/ SetOutdir
    \/ SetDatePeriod
    \/ SetWritePackageName
    \/ SetMergeStoredData
    \/ SetFillNoData
    \/ WritePypistat
    \/ GetPypistatStep
    \/ StoredStep
    \/ FillStep
    \/ WriteCsvStep

Spec == Init /\ [][Next]_vars

(***************************************************************************)
(* Claims about the calls of write_pypistat (Spec)                         *)
(***************************************************************************)
\* the partitions the loop over _write_csv has handled in the call under way
\* or just ended
Handled == 1..written

\* the file of a partition, if outdir has it
FileOf(stat_file) == {f \in files : f.file = stat_file}

\* the entries of the log the last step can have added: a step adds four at most
Newest == {j \in 1..Len(log) : j > Len(log) - 4}

\* the positions of the log at which step e of partition k is
At(e, k) == {i \in 1..Len(log) : log[i] = <<e, k>>}

\* no file was written for partition j: to_csv was not called for it, and a
\* configured outdir has no file of its name
NoFileWritten(j) ==
    /\ At("to_csv", j) = {}
    /\ wps.outdir => FileOf(stats[j].stat_file) = {}

\* nothing was fetched for partition j and outdir had no file of it
NoDataNoStored(j) == stats[j].fresh.none /\ ~stats[j].existed

\* a file of one zero row per day of the sub-range, the category missing
\* (the text nan), and nothing else
ZeroRowsText(self, stat_date) ==
    [cols |-> DFCols(self.write_package_name),
     rows |-> SetToBag({Row(d, IF self.write_package_name THEN self.package_name
                               ELSE NoCol, "nan", 0) : d \in SubRangeDays(stat_date)})]

\* partition j is in its file as one zero row per day of its sub-range
WrittenAsZeroRows(j) ==
    /\ FileOf(stats[j].stat_file) # {}
    /\ \A f \in FileOf(stats[j].stat_file) :
          /\ f.text = ZeroRowsText(wps, stats[j].stat_date)
          /\ BagCardinality(f.text.rows)
                = stats[j].stat_date.end - stats[j].stat_date.start + 1

\* the example of C8: year granularity, 2022-01-01..2022-01-03, overall
JanuaryExample ==
    /\ wps.date_period = "year"
    /\ args = [stat_type |-> "overall", postfix |-> NoneStr,
               start_date |-> Datetime(2022, 1, 1), end_date |-> Datetime(2022, 1, 3)]
    /\ written = 1
    /\ NoDataNoStored(1)

\* 2022_pypistat_overall.csv holds exactly 3 zero rows
JanuaryFile ==
    \E f \in files :
        /\ f.file = [prefix |-> <<2022>>, name |-> "pypistat_overall", ext |-> ".csv"]
        /\ BagCardinality(f.text.rows) = 3
        /\ \A r \in BagToSet(f.text.rows) : r.downloads = 0 /\ r.category = "nan"
        /\ {r.date : r \in BagToSet(f.text.rows)}
              = {<<2022, 1, 1>>, <<2022, 1, 2>>, <<2022, 1, 3>>}

\* C8 as stated: when a partition has no fetched data and no stored data and
\* gap-filling is enabled, its content is exactly one zero row (category
\* missing) per day of the sub-range and it is written to the partition's
\* file; the January example gives 2022_pypistat_overall.csv with 3 zero rows.
C8_ZeroRowsAreWritten ==
    /\ \A j \in Handled :
          (NoDataNoStored(j) /\ wps.fill_no_data) => WrittenAsZeroRows(j)
    /\ (JanuaryExample /\ wps.fill_no_data) => JanuaryFile

\* C8, amended: the same, when an output directory is configured (without one
\* _write_csv writes nothing and no file appears).
C8_ZeroRowsAreWrittenIfOutdir ==
    /\ \A j \in Handled :
          (NoDataNoStored(j) /\ wps.fill_no_data) =>
              /\ stats[j].stat = DataFrame(ZeroRowsText(wps, stats[j].stat_date).cols,
                                            ZeroRowsText(wps, stats[j].stat_date).rows)
              /\ IF wps.outdir THEN WrittenAsZeroRows(j)
                 ELSE NoFileWritten(j)
    /\ (JanuaryExample /\ wps.fill_no_data /\ wps.outdir) => JanuaryFile

\* the January example has run with an output directory and left its file
C8_Witness ==
    /\ JanuaryExample
    /\ wps.fill_no_data
    /\ wps.outdir
    /\ pc = "idle"
    /\ JanuaryFile

\* C9 as stated: when a partition has no fetched data and no stored data, it
\* is skipped: no file is written for it and no error is raised.
C9_NoDataNoStoredIsSkipped ==
    \A j \in Handled :
        NoDataNoStored(j) =>
            /\ NoFileWritten(j)
            /\ exc = "none"

\* C9, amended: when a partition has no fetched data and no stored data and
\* gap-filling is disabled, it is skipped: no file is written for it and no
\* error is raised.  (With gap-filling enabled and an output directory
\* configured it is not skipped: its file is written, C8.)
C9_NoDataNoStoredIsSkippedWithoutFill ==
    \A j \in Handled :
        /\ (NoDataNoStored(j) /\ ~wps.fill_no_data) =>
              /\ stats[j].stat.none
              /\ NoFileWritten(j)
              /\ exc = "none"
        /\ (NoDataNoStored(j) /\ wps.fill_no_data /\ wps.outdir) =>
              FileOf(stats[j].stat_file) # {}

\* a call with an output directory and without gap-filling has ended: one of
\* its partitions had nothing and has no file, another one was written
C9_Witness ==
    /\ pc = "idle"
    /\ wps.outdir
    /\ ~wps.fill_no_data
    /\ written = Len(stats)
    /\ \E j \in Handled : NoDataNoStored(j) /\ FileOf(stats[j].stat_file) = {}
    /\ \E j \in Handled : FileOf(stats[j].stat_file) # {}

\* C10 as stated: for consecutive partitions k and k+1 of one call, the write
\* of partition k's file happens before the fetch for partition k+1 begins.
C10_WriteBeforeNextFetch ==
    \A k \in 1..Len(parts) :
        \A i \in At("fetch", k + 1) : \E h \in At("write", k) : h < i

\* C10, amended: the partitions are fetched (and reconciled and gap-filled)
\* one after the other in chronological order, and only when the last one
\* has been gathered are they written, in the same order; so the write of
\* partition k comes after the fetch of partition k+1, and before the write
\* of partition k+1.  (Stated of the newest entries of the log: every entry
\* is among the newest in the state after its step.)
C10_AllFetchesBeforeAllWrites ==
    /\ (pc = "write" \/ written > 0) => Len(stats) = Len(parts)
    /\ \A j \in Newest :
          log[j][1] \in {"fetch", "write"} =>
              /\ \A i \in 1..(j - 1) :
                    log[i][1] = log[j][1] => log[i][2] < log[j][2]
              /\ log[j][2] > 1 =>
                    \E i \in 1..(j - 1) : log[i] = <<log[j][1], log[j][2] - 1>>
              /\ log[j][1] = "write" =>
                    \A m \in 1..Len(parts) :
                        \E h \in 1..(j - 1) : log[h] = <<"fetch", m>>
    /\ written > 0 => At("write", written) # {}
    /\ Len(stats) > 0 => At("fetch", Len(stats)) # {}

\* a call of two partitions has ended, both written
C10_Witness ==
    /\ pc = "idle"
    /\ exc = "none"
    /\ Len(parts) = 2
    /\ written = 2
    /\ wps.outdir
    /\ FileOf(stats[1].stat_file) # {}
    /\ FileOf(stats[2].stat_file) # {}
    /\ \E i \in At("fetch", 2), h \in At("write", 1) : i < h

\* the stages of a partition, in the order of the claim
StageRank(e) ==
    CASE e = "fetch" -> 1
      [] e = "stored" -> 2
      [] e = "fill" -> 3
      [] e = "finalize" -> 4
      [] e = "to_csv" -> 5
      [] OTHER -> 0

\* stat of a partition after the stored-data stage, from what was fetched
\* and what was loaded
AfterStoredStage(fresh, stored) ==
    IF wps.merge_stored_data
    THEN ConcatWithStoredPypistat(fresh, stored, StoredKeys(wps.write_package_name))
    ELSE fresh

\* stat of a partition after the gap-filling stage, from stat before it
AfterFillStage(stat, stat_date) ==
    IF wps.fill_no_data THEN ConcatWithNoData(wps, stat, stat_date) ELSE stat

\* C11: within a partition the stages run in the order fetch, stored-file
\* load and merge, gap-fill, finalize, write, for every granularity: in the
\* log of a call the steps of one partition are in that order, each at most
\* once and none without the fetch before it, and each stage works on the
\* result of the one before: the merge on what was fetched, the gap-fill on
\* the merged table, finalize on the filled one, and the file holds the
\* finalized table.  (Stated of the newest entries of the log, of the
\* partition gathered last and of the partition written last: every entry
\* and every partition is the newest in the state after its step.)
C11_StagesInOrder ==
    /\ \A j \in Newest :
          /\ \A i \in 1..(j - 1) :
                (log[i][2] = log[j][2] /\ StageRank(log[i][1]) > 0
                                       /\ StageRank(log[j][1]) > 0) =>
                    StageRank(log[i][1]) < StageRank(log[j][1])
          /\ StageRank(log[j][1]) > 1 =>
                \E i \in 1..(j - 1) : log[i] = <<"fetch", log[j][2]>>
    /\ pc = "stored" => cur.stat = cur.fresh
    /\ pc = "fill" => cur.stat = AfterStoredStage(cur.fresh, cur.stored)
    /\ (Len(stats) > 0 /\ written = 0 /\ pc \in {"fetch", "write"}) =>
          /\ stats[Len(stats)].stat =
                AfterFillStage(AfterStoredStage(stats[Len(stats)].fresh,
                                                stats[Len(stats)].stored),
                               stats[Len(stats)].stat_date)
          /\ At("fetch", Len(stats)) # {}
          /\ wps.merge_stored_data <=> At("stored", Len(stats)) # {}
          /\ wps.fill_no_data <=> At("fill", Len(stats)) # {}
    /\ written > 0 =>
          /\ (At("finalize", written) # {}) <=> (At("to_csv", written) # {})
          /\ (At("to_csv", written) # {}) <=> (~stats[written].stat.none /\ wps.outdir)
          /\ At("to_csv", written) # {} =>
                FileOf(stats[written].stat_file) =
                    {[file |-> stats[written].stat_file,
                      text |-> ToCsv(FilterDataFrameRows(stats[written].stat))]}

\* a partition went through all five stages, with a fetched and a stored
\* table, and finalize removed a row of the filled table
C11_Witness ==
    /\ pc = "idle"
    /\ \E j \in Handled :
          /\ \A e \in {"fetch", "stored", "fill", "finalize", "to_csv"} : At(e, j) # {}
          /\ ~stats[j].fresh.none
          /\ ~stats[j].stored.none
          /\ BagCardinality(stats[j].stat.rows)
                > BagCardinality(ToCsv(FilterDataFrameRows(stats[j].stat)).rows)

(***************************************************************************)
(* SpecDate: a StatDate object is constructed, its bounds are set, and the *)
(* static methods format_start and format_end are called, with date        *)
(* strings drawn from DateStrs and datetime.now() from Nows.               *)
(***************************************************************************)
\* the operations of StatDate in a behaviour
MaxOps == 3

\* the date strings: None, a year, year-months (a February of 28 and one of
\* 29 days, a month that does not exist), days (one that does not exist) and
\* a string of four tokens
DateStrs ==
    {NoneStr, <<2022>>, <<2020, 2>>, <<2022, 2>>, <<2022, 13>>,
     <<2021, 12, 31>>, <<2022, 1, 1>>, <<2022, 2, 29>>, <<2022, 1, 1, 1>>}

\* datetime.now() at a call
Nows == {Datetime(2020, 8, 29), Datetime(2022, 7, 1)}

InitDate ==
    /\ sd_obj = NoStatDate
    /\ sd_prev = NoStatDate
    /\ sd_call = [op |-> "none", start |-> NoneStr, end |-> NoneStr, now |-> 0]
    /\ sd_ret = Return(0)
    /\ sd_n = 0
    /\ SegIdle
    /\ RecIdle
    /\ PipeIdle
    /\ OpsIdle
    /\ FetchIdle
    /\ RerunIdle

\* an operation was called with the arguments call, raised or returned ret
\* and left the object obj
DateOp(call, ret, obj) ==
    /\ sd_n < MaxOps
    /\ sd_n' = sd_n + 1
    /\ sd_prev' = sd_obj
    /\ sd_call' = call
    /\ sd_ret' = ret
    /\ sd_obj' = obj
    /\ UNCHANGED <<seg_vars, rec_vars, pipe_vars, ops_vars, fetch_vars, rerun_vars>>

\* what a method returning None, or raising, leaves to the caller
Outcome(r) == IF r.exc = "none" THEN Return(0) ELSE Raise(r.exc)

\* the object r holds if r is a return, else the object obj as it was
ObjectAfter(r, obj) ==
    IF r.exc = "none" THEN [live |-> TRUE, start |-> r.val.start, end |-> r.val.end]
    ELSE obj

\* sd = StatDate(start, end)
NewStatDate ==
    \E start \in DateStrs, end \in DateStrs, now \in Nows :
        DateOp([op |-> "init", start |-> start, end |-> end, now |-> now],
               Outcome(StatDateInit(start, end, now)),
               ObjectAfter(StatDateInit(start, end, now), sd_obj))

\* sd.start = start
SetStart ==
    /\ sd_obj.live
    /\ \E start \in DateStrs, now \in Nows :
          DateOp([op |-> "start", start |-> start, end |-> NoneStr, now |-> now],
                 Outcome(StartSetter(sd_obj, start, now)),
                 StartSetter(sd_obj, start, now).val)

\* sd.end = end
SetEnd ==
    /\ sd_obj.live
    /\ \E end \in DateStrs, now \in Nows :
          DateOp([op |-> "end", start |-> NoneStr, end |-> end, now |-> now],
                 Outcome(EndSetter(sd_obj, end, now)),
                 EndSetter(sd_obj, end, now).val)

\* StatDate.format_start(start)
CallFormatStart ==
    \E start \in DateStrs, now \in Nows :
        DateOp([op |-> "format_start", start |-> start, end |-> NoneStr, now |-> now],
               FormatStart(start, now), sd_obj)

\* StatDate.format_end(end)
CallFormatEnd ==
    \E end \in DateStrs, now \in Nows :
        DateOp([op |-> "format_end", start |-> NoneStr, end |-> end, now |-> now],
               FormatEnd(end, now), sd_obj)

NextDate ==
    \/ NewStatDate
    \/ SetStart
    \/ SetEnd
    \/ CallFormatStart
    \/ CallFormatEnd

SpecDate == InitDate /\ [][NextDate]_vars

(***************************************************************************)
(* Properties of SpecDate                                                  *)
(***************************************************************************)
\* the date a well-formed string stands for as a start: the first day of
\* the year or of the month, or the day itself
StartOf(s) ==
    IF Len(s) = 1 THEN Datetime(s[1], 1, 1)
    ELSE IF Len(s) = 2 THEN Datetime(s[1], s[2], 1)
    ELSE Datetime(s[1], s[2], s[3])

\* the first day of the month after month m of year y
NextMonthFirst(y, m) == IF m = 12 THEN Datetime(y + 1, 1, 1) ELSE Datetime(y, m + 1, 1)

\* the date a well-formed string stands for as an end: the last day of the
\* year or of the month, or the day itself
EndOf(s) ==
    IF Len(s) = 1 THEN Datetime(s[1], 12, 31)
    ELSE IF Len(s) = 2 THEN NextMonthFirst(s[1], s[2]) - 1
    ELSE Datetime(s[1], s[2], s[3])

\* a string of year, year and month, or year, month and day of the calendar
WellFormed(s) ==
    /\ Len(s) \in 1..3
    /\ s[1] \in 1..9999
    /\ Len(s) >= 2 => s[2] \in 1..12
    /\ Len(s) = 3 => s[3] \in 1..(NextMonthFirst(s[1], s[2]) - Datetime(s[1], s[2], 1))

\* the bounds a call asks for: those of the strings, 181 days before now
\* for no start and now for no end; nothing if a string is not well-formed
Asked(s, now, is_start) ==
    IF s = NoneStr THEN {IF is_start THEN now - 181 ELSE now}
    ELSE IF ~WellFormed(s) THEN {}
    ELSE {IF is_start THEN StartOf(s) ELSE EndOf(s)}

C13_WellFormedTextIsNormalized ==
    /\ (sd_call.op = "format_start" /\ sd_call.start # NoneStr
                                    /\ WellFormed(sd_call.start)) =>
          /\ sd_ret = Return(StartOf(sd_call.start))
          /\ Len(sd_call.start) = 1 => StrftimeYmd(sd_ret.val) = sd_call.start \o <<1, 1>>
          /\ Len(sd_call.start) = 2 => StrftimeYmd(sd_ret.val) = sd_call.start \o <<1>>
          /\ Len(sd_call.start) = 3 => StrftimeYmd(sd_ret.val) = sd_call.start
    /\ (sd_call.op = "format_end" /\ sd_call.end # NoneStr
                                  /\ WellFormed(sd_call.end)) =>
          /\ sd_ret = Return(EndOf(sd_call.end))
          /\ Len(sd_call.end) = 1 => StrftimeYmd(sd_ret.val) = sd_call.end \o <<12, 31>>
          /\ Len(sd_call.end) = 2 =>
                /\ StrftimeYm(sd_ret.val) = sd_call.end
                /\ StrftimeYm(sd_ret.val + 1) # sd_call.end
          /\ Len(sd_call.end) = 3 => StrftimeYmd(sd_ret.val) = sd_call.end
          /\ sd_call.end = <<2022, 2>> => StrftimeYmd(sd_ret.val) = <<2022, 2, 28>>
          /\ sd_call.end = <<2020, 2>> => StrftimeYmd(sd_ret.val) = <<2020, 2, 29>>

\* format_end was called with the February of a leap year
C13_Witness ==
    /\ sd_call.op = "format_end"
    /\ sd_call.end = <<2020, 2>>
    /\ sd_ret.exc = "none"
    /\ StrftimeYmd(sd_ret.val) = <<2020, 2, 29>>

\* C14 as stated: with no start the formatted start is the date 180 days
\* before the current date, and with no end the formatted end is the
\* current date.
C14_DefaultStartIs180DaysBack ==
    /\ (sd_call.op = "format_start" /\ sd_call.start = NoneStr) =>
          sd_ret = Return(sd_call.now - 180)
    /\ (sd_call.op = "format_end" /\ sd_call.end = NoneStr) =>
          sd_ret = Return(sd_call.now)

\* C14, amended: with no start the formatted start is the date 181 days
\* before the current date, and with no end the formatted end is the
\* current date; a StatDate constructed with neither spans these 182 days.
C14_DefaultStartIs181DaysBack ==
    /\ (sd_call.op = "format_start" /\ sd_call.start = NoneStr) =>
          sd_ret = Return(sd_call.now - 181)
    /\ (sd_call.op = "format_end" /\ sd_call.end = NoneStr) =>
          sd_ret = Return(sd_call.now)
    /\ (sd_call.op = "init" /\ sd_call.start = NoneStr /\ sd_call.end = NoneStr) =>
          /\ sd_ret.exc = "none"
          /\ sd_obj = [live |-> TRUE, start |-> sd_call.now - 181, end |-> sd_call.now]

\* format_start was called with None on 2022-07-01 and returned 2022-01-01
C14_Witness ==
    /\ sd_call.op = "format_start"
    /\ sd_call.start = NoneStr
    /\ StrftimeYmd(sd_call.now) = <<2022, 7, 1>>
    /\ sd_ret.exc = "none"
    /\ StrftimeYmd(sd_ret.val) = <<2022, 1, 1>>

(***************************************************************************)
(* Properties of Spec: the date strings of a call                          *)
(***************************************************************************)
\* a date string of more than three tokens, or one whose tokens are not a
\* date of the calendar
Malformed(s) == s # NoneStr /\ ~WellFormed(s)

\* the malformed ones among the date strings write_pypistat is given
MalformedGiven ==
    {s \in {r[1] : r \in PipeRanges} \cup {r[2] : r \in PipeRanges} : Malformed(s)}

\* C15: a date string of more than three tokens, or whose tokens do not
\* form an existing calendar date (2022-02-29, month 13), is rejected with
\* ValueError at the construction of the StatDate, before any fetch, read of
\* a stored file or write: the call of write_pypistat given it has ended
\* with ValueError and has taken no step.
C15_MalformedDateIsRejectedFirst ==
    (given[1] \in MalformedGiven \/ given[2] \in MalformedGiven) =>
        /\ pc = "idle"
        /\ exc = "ValueError"
        /\ log = <<>>
        /\ stats = <<>>
        /\ written = 0

\* a second call, made when a first one has written a file, was given a
\* start of four tokens
C15_Witness ==
    /\ runs = 2
    /\ Len(given[1]) = 4
    /\ pc = "idle"
    /\ exc = "ValueError"
    /\ \E f \in files : f.text.rows # EmptyBag

(***************************************************************************)
(* SpecOps: _filter_data_frame_rows is applied to a table and then to its  *)
(* result, and _merge_data_frames to two tables and then to its result and *)
(* the second table again.  The tables are bags of at most MaxOpRows rows, *)
(* a row or a key may be there more than once.                             *)
(***************************************************************************)
\* the most rows of a table, repeated rows counted
MaxOpRows == 3

OpDates == {<<2022, 1, 1>>, <<2022, 1, 2>>}

\* the bag of the elements of a sequence
BagOfSeq(s) == [r \in {s[i] : i \in DOMAIN s} |-> Cardinality({i \in DOMAIN s : s[i] = r})]

\* the bags of at most MaxOpRows elements of rows
BagsOf(rows) == {BagOfSeq(s) : s \in UNION {[1..k -> rows] : k \in 0..MaxOpRows}}

\* the tables of date, category and downloads: stat, or dataf1 of a merge
FirstTables ==
    {DataFrame({"date", "category", "downloads"}, b) :
        b \in BagsOf({Row(d, NoCol, c, n) : d \in OpDates, c \in {"a", NaNStr},
                                             n \in {0, 5}})}

\* dataf2 of a merge on keys: a stored table, with the category as the text
\* of the file has it, or for the key date a table of date and downloads
SecondTables(keys) ==
    IF "category" \in keys
    THEN {DataFrame({"date", "category", "downloads"}, b) :
            b \in BagsOf({Row(d, NoCol, c, n) : d \in OpDates, c \in {"a", "null"},
                                                 n \in {0, 7}})}
    ELSE {DataFrame({"date", "downloads"}, b) :
            b \in BagsOf({Row(d, NoCol, NoCol, n) : d \in OpDates, n \in {0, 7}})}

InitOps ==
    /\ op_a \in FirstTables
    /\ op_keys \in {{}, StoredKeys(FALSE), NoDataKeys(FALSE)}
    /\ op_b \in (IF op_keys = {} THEN {NoneDF} ELSE SecondTables(op_keys))
    /\ op_out1 = NoneDF
    /\ op_out2 = NoneDF
    /\ op_pc = "new"
    /\ SegIdle
    /\ RecIdle
    /\ PipeIdle
    /\ DateIdle
    /\ FetchIdle
    /\ RerunIdle

\* stat = _filter_data_frame_rows(stat)
Finalize ==
    /\ op_pc = "new"
    /\ op_keys = {}
    /\ op_out1' = FilterDataFrameRows(op_a)
    /\ op_pc' = "finalized"
    /\ UNCHANGED <<op_a, op_b, op_keys, op_out2, seg_vars, rec_vars, pipe_vars,
                   date_vars, fetch_vars, rerun_vars>>

\* and once more, of the result
FinalizeAgain ==
    /\ op_pc = "finalized"
    /\ op_out2' = FilterDataFrameRows(op_out1)
    /\ op_pc' = "finalized2"
    /\ UNCHANGED <<op_a, op_b, op_keys, op_out1, seg_vars, rec_vars, pipe_vars,
                   date_vars, fetch_vars, rerun_vars>>

\* merged = _merge_data_frames(dataf1, dataf2, keys)
Merge ==
    /\ op_pc = "new"
    /\ op_keys # {}
    /\ op_out1' = MergeDataFrames(op_a, op_b, op_keys)
    /\ op_pc' = "merged"
    /\ UNCHANGED <<op_a, op_b, op_keys, op_out2, seg_vars, rec_vars, pipe_vars,
                   date_vars, fetch_vars, rerun_vars>>

\* and once more, of the result and dataf2
MergeAgain ==
    /\ op_pc = "merged"
    /\ op_out2' = MergeDataFrames(op_out1, op_b, op_keys)
    /\ op_pc' = "merged2"
    /\ UNCHANGED <<op_a, op_b, op_keys, op_out1, seg_vars, rec_vars, pipe_vars,
                   date_vars, fetch_vars, rerun_vars>>

NextOps ==
    \/ Finalize
    \/ FinalizeAgain
    \/ Merge
    \/ MergeAgain

SpecOps == InitOps /\ [][NextOps]_vars

(***************************************************************************)
(* Properties of SpecOps                                                   *)
(***************************************************************************)
\* C16: finalize is idempotent: for every table, finalize(finalize(t))
\* equals finalize(t).
C16_FinalizeIsIdempotent ==
    op_pc = "finalized2" => op_out2 = op_out1

\* a table with a row twice and a zero row of the same day was finalized
\* twice: the first time left one row of the three, the second changed
\* nothing
C16_Witness ==
    /\ op_pc = "finalized2"
    /\ BagCardinality(op_a.rows) = 3
    /\ \E r \in BagToSet(op_a.rows) : op_a.rows[r] = 2 /\ r.downloads # 0
    /\ \E r \in BagToSet(op_a.rows) : r.downloads = 0
    /\ BagCardinality(op_out1.rows) = 1
    /\ op_out2 = op_out1

\* a table has no key twice
UniqueKeys(dataf, keys) ==
    \A r \in BagToSet(dataf.rows) :
        /\ dataf.rows[r] = 1
        /\ \A q \in BagToSet(dataf.rows) : KeyOf(q, keys) = KeyOf(r, keys) => q = r

\* C17 as stated: merge(merge(A, B, k), B, k) equals merge(A, B, k), also
\* when B contains several rows with the same key.
C17_MergeIsIdempotent ==
    op_pc = "merged2" => op_out2 = op_out1

\* C17, amended: merge(merge(A, B, k), B, k) equals merge(A, B, k) when B
\* has no key twice; when B has several rows with the same key the second
\* merge has the same columns and the same distinct rows, some of them more
\* often.
C17_MergeIsIdempotentOnUniqueKeys ==
    op_pc = "merged2" =>
        /\ UniqueKeys(ReplaceNullNan(op_b), op_keys) => op_out2 = op_out1
        /\ op_out2.cols = op_out1.cols
        /\ BagToSet(op_out2.rows) = BagToSet(op_out1.rows)
        /\ \A r \in BagToSet(op_out1.rows) : op_out2.rows[r] >= op_out1.rows[r]

\* B has a key twice, and the second merge repeated a row of the first
C17_Witness ==
    /\ op_pc = "merged2"
    /\ ~UniqueKeys(ReplaceNullNan(op_b), op_keys)
    /\ BagToSet(op_out2.rows) = BagToSet(op_out1.rows)
    /\ \E r \in BagToSet(op_out1.rows) : op_out2.rows[r] > op_out1.rows[r]

(***************************************************************************)
(* Properties of SpecSeg: the file names                                   *)
(***************************************************************************)
\* the period prefix of a day for a granularity: none, %Y-%m-%d, %Y-%m, %Y
PeriodPrefix(date_period, day) ==
    IF date_period = "day" THEN YmdOfYear(YearOf(day), day)
    ELSE IF date_period = "month" THEN <<YearOf(day), MonthOf(day)>>
    ELSE IF date_period = "year" THEN <<YearOf(day)>>
    ELSE NoneStr

\* C18: the file name of each partition is <period-prefix><name>.csv, where
\* <name> is the postfix of the call when one is given and pypistat_<kind>
\* otherwise, and the prefix is empty for granularity none, YYYY-MM-DD_ for
\* day, YYYY-MM_ for month and YYYY_ for year, the period being that of
\* every day of the partition's sub-range.
C18_FileNameOfPartition ==
    seg_pc = "done" =>
        \A k \in 1..Len(seg_stats.stats) :
            /\ seg_stats.stats[k].stat_file.ext = ".csv"
            /\ seg_stats.stats[k].stat_file.name =
                  (IF seg_args.postfix = NoneStr
                   THEN (IF seg_args.stat_type = "overall" THEN "pypistat_overall"
                         ELSE "pypistat_system")
                   ELSE seg_args.postfix[1])
            /\ \A d \in SubRange(k).start..SubRange(k).end :
                  seg_stats.stats[k].stat_file.prefix =
                      PeriodPrefix(seg_args.date_period, d)
            /\ Len(seg_stats.stats[k].stat_file.prefix) =
                  (CASE seg_args.date_period = "day" -> 3
                     [] seg_args.date_period = "month" -> 2
                     [] seg_args.date_period = "year" -> 1
                     [] OTHER -> 0)

\* a walk by month with a postfix has ended with partitions of two months
C18_Witness ==
    /\ SegDone
    /\ seg_args.date_period = "month"
    /\ seg_args.postfix = <<"pf">>
    /\ Len(seg_stats.stats) >= 2
    /\ seg_stats.stats[1].stat_file = [prefix |-> <<2020, 11>>, name |-> "pf", ext |-> ".csv"]
    /\ seg_stats.stats[2].stat_file = [prefix |-> <<2020, 12>>, name |-> "pf", ext |-> ".csv"]

(***************************************************************************)
(* Properties of Spec: the writer and the provider                         *)
(***************************************************************************)
\* a table that is absent or has no rows
AbsentOrEmpty(stat) == stat.none \/ stat.rows = EmptyBag

\* C19: the writer does nothing when the table of the partition is absent
\* or has no rows: it creates no directory and creates or overwrites no
\* file.
C19_WriterSkipsAbsentOrEmpty ==
    \A j \in Handled :
        AbsentOrEmpty(stats[j].stat) =>
            /\ At("makedirs", j) = {}
            /\ At("to_csv", j) = {}

\* the step the log ends with
LastStep == log[Len(log)]

IsFetch(e) == e[1] = "fetch"

\* the calls of the provider of the call of write_pypistat, in order
Fetches == SelectSeq(log, IsFetch)

\* C21: during one call of write_pypistat the provider is called exactly
\* once per emitted partition, whether or not the stored-data merge and the
\* gap filling are enabled, and a call of it that ends in "no data" or in an
\* error is not made again: the k-th call of the provider is that of
\* partition k, all partitions gathered have had theirs, and when the
\* writing has begun or the call has ended without error every partition
\* has had exactly one.
C21_OneFetchPerPartition ==
    /\ \A k \in 1..Len(Fetches) : Fetches[k] = <<"fetch", k>>
    /\ Len(Fetches) <= Len(parts)
    /\ Len(Fetches) \in {Len(stats), Len(stats) + 1}
    /\ pc = "fetch" => Len(Fetches) = Len(stats)
    /\ pc \in {"stored", "fill"} => Len(Fetches) = Len(stats) + 1
    /\ (pc = "write" \/ written > 0 \/ (pc = "idle" /\ exc = "none" /\ runs > 0)) =>
          Len(Fetches) = Len(parts)
    /\ cur.resp = "HTTPError" => Len(Fetches) = Len(stats) + 1

\* a call of two partitions has ended, merge and gap filling off; the
\* provider had no data for the first partition
C21_Witness ==
    /\ pc = "idle"
    /\ exc = "none"
    /\ ~wps.merge_stored_data
    /\ ~wps.fill_no_data
    /\ Len(parts) = 2
    /\ Len(stats) = 2
    /\ stats[1].fresh.none
    /\ Fetches = <<<<"fetch", 1>>, <<"fetch", 2>>>>

(***************************************************************************)
(* Properties of Spec: the stored data                                     *)
(***************************************************************************)
\* a cell of a file as a cell of the stored table: an empty text, "nan" and
\* "null" are the string "nan", any other text is itself
CellOfText(c) == IF c \in {"", "nan", "null"} THEN "nan" ELSE c

\* the table with the rows and values of the lines of a file
TableOfText(text) ==
    DataFrame(text.cols,
        BagOfAll(LAMBDA r :
                    Row(IF Len(r.date) = 1 THEN <<CellOfText(r.date[1])>> ELSE r.date,
                        IF "package" \in text.cols THEN CellOfText(r.package) ELSE NoCol,
                        IF "category" \in text.cols THEN CellOfText(r.category) ELSE NoCol,
                        r.downloads),
                 text.rows))

\* the file of the partition being gathered that _get_stored_pypistat reads
StoredFileOfPart == IF wps.outdir THEN FileOf(Part.stat_file) ELSE {}

\* C22: the reconciliation with the stored data passes the only side there
\* is through unchanged: when the fetch had no data and there is a stored
\* table, the result is the stored table, with the rows and values of the
\* file; when there is a fresh table and no stored file, or no outdir, the
\* result is the fresh table; when there is neither, there is no table.
C22_OnlySidePassesThrough ==
    (pc = "fill" /\ wps.merge_stored_data) =>
        /\ (cur.fresh.none /\ StoredFileOfPart # {}) =>
              /\ cur.stat = cur.stored
              /\ \A f \in StoredFileOfPart : cur.stat = TableOfText(f.text)
        /\ (~cur.fresh.none /\ StoredFileOfPart = {}) =>
              /\ cur.stat = cur.fresh
              /\ cur.stored.none
        /\ (cur.fresh.none /\ StoredFileOfPart = {}) => cur.stat.none

\* in a second call the fetch had no data, and the file an earlier call
\* wrote is the table
C22_Witness ==
    /\ pc = "fill"
    /\ runs = 2
    /\ wps.merge_stored_data
    /\ cur.fresh.none
    /\ ~cur.stat.none
    /\ \E r \in BagToSet(cur.stat.rows) : r.downloads = 7 /\ r.category = "nan"
    /\ \E f \in StoredFileOfPart : cur.stat = TableOfText(f.text)

(***************************************************************************)
(* SpecFetch: one call of _get_pypistat for which pypistats returns a      *)
(* table, with or without rows of the date None (the total row).           *)
(***************************************************************************)
\* the rows pypistats can return: of a day or of the date None, of the
\* category "a" or "Total"
RawRows ==
    {Row(d, NoCol, c, n) : d \in OpDates \cup {NoneDate}, c \in {"Total", "a"},
                           n \in {0, 7}}

RawFrames == {DataFrame({"date", "category", "downloads"}, b) : b \in BagsOf(RawRows)}

InitFetch ==
    /\ ft_self \in {[NewWritePypiStat("p", FALSE) EXCEPT !.drop_total_row = b,
                                                          !.write_package_name = w] :
                       b \in BOOLEAN, w \in BOOLEAN}
    /\ ft_raw \in RawFrames
    /\ ft_last \in (IF ft_raw.rows = EmptyBag THEN {{}}
                    ELSE {{q} : q \in LastRows(ft_raw)})
    /\ ft_ret = Return(NoneDF)
    /\ ft_pc = "call"
    /\ SegIdle
    /\ RecIdle
    /\ PipeIdle
    /\ DateIdle
    /\ OpsIdle
    /\ RerunIdle

\* stats = self._get_pypistat(stat_type, stat_date)
CallGetPypistat ==
    /\ ft_pc = "call"
    /\ ft_ret' = GetPypistatOfTable(ft_self, ft_raw, ft_last)
    /\ ft_pc' = "done"
    /\ UNCHANGED <<ft_self, ft_raw, ft_last, seg_vars, rec_vars, pipe_vars, date_vars,
                   ops_vars, rerun_vars>>

NextFetch == CallGetPypistat

SpecFetch == InitFetch /\ [][NextFetch]_vars

(***************************************************************************)
(* Properties of SpecFetch                                                 *)
(***************************************************************************)
\* a row of the provider as _get_pypistat returns it
Returned(r) ==
    [r EXCEPT !.date = IF @ = NoneDate THEN <<"None">> ELSE @,
              !.package = IF ft_self.write_package_name THEN "p" ELSE NoCol]

\* how many rows the call took away
Removed == BagCardinality(ft_raw.rows) - BagCardinality(ft_ret.val.rows)

\* C23: with drop_total_row the post-processing of the fetch removes at
\* most one row, the last one after the sort by date and category, and only
\* when the date of that row is None; every row with a date is kept, and
\* without drop_total_row no row is removed.
C23_OnlyTrailingTotalRowIsDropped ==
    (ft_pc = "done" /\ ft_ret.exc = "none") =>
        /\ Removed \in {0, 1}
        /\ ~ft_self.drop_total_row => Removed = 0
        /\ Removed = 1 <=>
              (ft_self.drop_total_row /\ \E q \in ft_last : q.date = NoneDate)
        /\ \A r \in BagToSet(ft_raw.rows) :
              /\ r.date # NoneDate =>
                    CopiesIn(Returned(r), ft_ret.val.rows) = ft_raw.rows[r]
              /\ CopiesIn(Returned(r), ft_ret.val.rows) =
                    ft_raw.rows[r] - (IF r \in ft_last THEN Removed ELSE 0)
              /\ \A q \in ft_last : r.date = NoneDate => q.date = NoneDate
        /\ BagToSet(ft_ret.val.rows) \subseteq {Returned(r) : r \in BagToSet(ft_raw.rows)}

\* of a row of a day and two rows of the date None the one of the category
\* "a", which the sort puts after "Total", was taken away
C23_Witness ==
    /\ ft_pc = "done"
    /\ ft_ret.exc = "none"
    /\ ft_self.drop_total_row
    /\ BagCardinality(ft_raw.rows) = 3
    /\ \E r \in BagToSet(ft_raw.rows) : r.date # NoneDate
    /\ \E r \in BagToSet(ft_raw.rows) : r.date = NoneDate /\ r.category = "Total"
    /\ \E q \in ft_last : q.date = NoneDate /\ q.category = "a"
    /\ Removed = 1

(***************************************************************************)
(* Properties of SpecRec: the textual missing values                       *)
(***************************************************************************)
\* the rows of a table of the day and package of row f whose category is
\* missing or one of the texts for it
MissingCategoryRows(dataf, f) ==
    {r \in BagToSet(dataf.rows) :
        /\ r.date = f.date
        /\ r.package = f.package
        /\ r.category \in {NaNStr, "null", "nan"}}

\* C24: the merge takes the texts "null" and "nan" of either table for a
\* missing value before it joins, so rows whose categories are such a text
\* or missing have the same key: in the reconciliation with the stored data
\* a fresh row of category "null" and a stored row without category (the
\* placeholder) of the same date give a single row, of missing category,
\* with the fresh downloads.
C24_NullAndNanTextsAreMissing ==
    (rec_pc # "fetched" /\ rec_self.merge_stored_data
        /\ ~rec_fresh.none /\ ~rec_stored.none) =>
        /\ \A r \in BagToSet(rec_merged.rows) : r.category \notin {"null", "nan"}
        /\ \A f \in BagToSet(rec_fresh.rows) :
              (f.category \in {"null", "nan"}
                  /\ MissingCategoryRows(rec_stored, f) # {}) =>
                  /\ MissingCategoryRows(rec_merged, f) =
                        {[f EXCEPT !.category = NaNStr]}
                  /\ rec_merged.rows[[f EXCEPT !.category = NaNStr]] = 1

\* fresh 2022-01-01,null,7 and the stored placeholder 2022-01-01,,0 gave
\* the one row 2022-01-01,,7
C24_Witness ==
    /\ rec_pc = "merged"
    /\ rec_self.merge_stored_data
    /\ ~rec_fresh.none
    /\ ~rec_stored.none
    /\ Row(<<2022, 1, 1>>, NoCol, "null", 7) \in BagToSet(rec_fresh.rows)
    /\ Row(<<2022, 1, 1>>, NoCol, "nan", 0) \in BagToSet(rec_stored.rows)
    /\ \A r \in BagToSet(rec_merged.rows) :
          r.date = <<2022, 1, 1>> => r = Row(<<2022, 1, 1>>, NoCol, NaNStr, 7)
    /\ \E r \in BagToSet(rec_merged.rows) : r.date = <<2022, 1, 1>>

\* ---------------------------------------------------------------------------
\* write_pypistat called again and again on one output directory, with
\* date_period none: every call has one partition, the file pypistat_overall.csv
\* ---------------------------------------------------------------------------

\* the ranges of the calls: two that overlap in one day
RerunRanges ==
    {<<<<2022, 1, 1>>, <<2022, 1, 2>>>>, <<<<2022, 1, 2>>, <<2022, 1, 3>>>>}

\* the target file of the one partition
RerunFile == StatFile(NoneStr, NoneStr, "overall")

InitRerun ==
    /\ rr_self \in {[NewWritePypiStat("p", TRUE) EXCEPT
                        !.date_period = "none", !.write_package_name = w,
                        !.merge_stored_data = m, !.fill_no_data = f] :
                     w \in BOOLEAN, m \in BOOLEAN, f \in BOOLEAN}
    /\ rr_files = {}
    /\ rr_last = NoRun
    /\ SegIdle
    /\ RecIdle
    /\ PipeIdle
    /\ DateIdle
    /\ OpsIdle
    /\ FetchIdle

\* one call of write_pypistat: the provider answers resp; a failure of the
\* provider leaves the call before anything is written
CallWritePypistat(stat_date, resp, fetched, again) ==
    /\ rr_files' = IF fetched.exc = "none"
                   THEN FilesAfter(rr_self, rr_files, stat_date, RerunFile, fetched.val)
                   ELSE rr_files
    /\ rr_last' = [made |-> TRUE, again |-> again, stat_date |-> stat_date,
                   resp |-> resp, before |-> rr_files, exc |-> fetched.exc]
    /\ UNCHANGED <<rr_self, seg_vars, rec_vars, pipe_vars, date_vars, ops_vars,
                   fetch_vars>>

\* a call with any range and any answer of the provider
RunWritePypistat ==
    \E g \in RerunRanges :
        \E resp \in ProviderResponses(StatDateInit(g[1], g[2], Now).val) :
            CallWritePypistat(StatDateInit(g[1], g[2], Now).val, resp,
                              GetPypistat(rr_self, resp), FALSE)

\* the last call once more: the same range, the same answer of the provider
RunWritePypistatAgain ==
    /\ rr_last.made
    /\ CallWritePypistat(rr_last.stat_date, rr_last.resp,
                         GetPypistat(rr_self, rr_last.resp), TRUE)

NextRerun == RunWritePypistat \/ RunWritePypistatAgain

SpecRerun == InitRerun /\ [][NextRerun]_vars

\* C25: a call of write_pypistat repeated with the same arguments, the same
\* configuration and the same answer of the provider leaves every partition
\* file with the rows the first of the two calls left
C25_RerunIsIdempotent ==
    (rr_last.made /\ rr_last.again) => rr_files = rr_last.before

\* the rows of the files as pd.read_csv reads them: the texts "", "nan" and
\* "null" of a cell are one missing value
RowsRead(fs) == {[file |-> f.file, table |-> ReadCsv(f.text)] : f \in fs}

\* C25, as far as it holds: the repeated call leaves every partition file with
\* the rows the first of the two calls left as they are read back, the text of
\* a missing category may change from "null" to "nan"
C25_RerunKeepsRowsAsRead ==
    (rr_last.made /\ rr_last.again) => RowsRead(rr_files) = RowsRead(rr_last.before)

\* the key of a row of a file or of the provider: its date, its category (a
\* missing one whatever its text); the package is the one of the instance
HistoryKey(r) ==
    <<r.date, IF r.category \in NaValues \cup {NaNStr} THEN NaNStr ELSE r.category>>

\* the keys of the rows the provider returned to the last call
FreshKeys == {HistoryKey(r) : r \in BagToSet(rr_last.resp.frame.rows)}

\* C26: with merge_stored_data on, every row of a partition file that has
\* downloads and whose key the fresh fetch of a call does not have is in the
\* file after the call, with the same downloads: also when the provider had no
\* data or failed, and for a date outside the range of the call
C26_StoredHistoryIsKept ==
    (rr_last.made /\ rr_self.merge_stored_data) =>
        \A f \in rr_last.before :
            \A r \in BagToSet(f.text.rows) :
                (r.downloads # 0 /\ HistoryKey(r) \notin FreshKeys) =>
                    \E g \in rr_files :
                        /\ g.file = f.file
                        /\ \E q \in BagToSet(g.text.rows) :
                              /\ HistoryKey(q) = HistoryKey(r)
                              /\ q.package = r.package
                              /\ q.downloads = r.downloads

\* C26 happens: the file holds 7 downloads without category for 2022-01-01, and
\* a call for 2022-01-02..2022-01-03 for which the provider has no data has
\* filled the gaps and rewritten the file
C26_Witness ==
    /\ rr_last.made /\ rr_self.merge_stored_data /\ rr_self.fill_no_data
    /\ rr_last.resp.kind = "ValueError"
    /\ rr_last.stat_date.start = Datetime(2022, 1, 2)
    /\ \E f \in rr_last.before :
          /\ \E r \in BagToSet(f.text.rows) :
                r.date = <<2022, 1, 1>> /\ r.category = "nan" /\ r.downloads = 7
          /\ \A r \in BagToSet(f.text.rows) : r.date # <<2022, 1, 3>>
    /\ \E g \in rr_files :
          \E q \in BagToSet(g.text.rows) : q.date = <<2022, 1, 3>> /\ q.downloads = 0

\* ---------------------------------------------------------------------------
\* A failure while the partitions are gathered (Spec)
\* ---------------------------------------------------------------------------

\* the call under way or just ended has met a failure of the provider or of
\* the read of a stored file
Failed == exc \in {"HTTPError", "OSError"}

\* C27: when the provider fails or a stored file cannot be read for a
\* partition, the error leaves write_pypistat and the call has written
\* nothing: the loop over _write_csv has not run, also not for the partitions
\* gathered before the failing one, and no step outside that loop changes a
\* file or makes the directory
C27_FailureWritesNothing ==
    /\ [](Failed => /\ pc = "idle"
                    /\ written = 0
                    /\ \A i \in 1..Len(log) :
                          log[i][1] \notin {"write", "makedirs", "finalize", "to_csv"})
    /\ [][written' # written + 1 => (files' = files /\ made' = made)]_vars

\* C27 happens: the first partition of two was gathered with a table, then the
\* stored file of the second could not be read; outdir holds what it held
C27_Witness ==
    /\ pc = "idle"
    /\ exc = "OSError"
    /\ Len(parts) = 2
    /\ Len(stats) = 1
    /\ ~stats[1].stat.none
    /\ written = 0
    /\ FileOf(parts[2].stat_file) # {}

\* ---------------------------------------------------------------------------
\* The target files of one walk (SpecSeg)
\* ---------------------------------------------------------------------------

\* C28: no two partitions a walk emits have the same target file, whatever the
\* range, the granularity and the postfix: the loop over _write_csv never
\* writes a file twice in one call
C28_TargetFilesAreDistinct ==
    seg_pc = "done" =>
        \A k \in 1..Len(seg_stats.stats) :
            \A l \in 1..Len(seg_stats.stats) :
                k # l => seg_stats.stats[k].stat_file # seg_stats.stats[l].stat_file

\* C28 happens: a walk by day with a postfix has ended with three partitions
\* or more
C28_Witness ==
    /\ SegDone
    /\ seg_args.date_period = "day"
    /\ seg_args.postfix # NoneStr
    /\ Len(seg_stats.stats) >= 3
    /\ seg_stats.stats[1].stat_file.name = seg_stats.stats[3].stat_file.name
    /\ seg_stats.stats[1].stat_file.prefix # seg_stats.stats[3].stat_file.prefix

\* ---------------------------------------------------------------------------
\* A rejected mutation of a StatDate (SpecDate)
\* ---------------------------------------------------------------------------

\* the text the last call gave for the bound it sets
BoundGiven == IF sd_call.op = "start" THEN sd_call.start ELSE sd_call.end

\* C29: a mutation of start or end that raises leaves both bounds as they
\* were before the call: it raises ValueError for a text that is no date and
\* AssertionError for a bound on the wrong side of the other one, and nothing
\* else
C29_RejectedMutationChangesNothing ==
    sd_call.op \in {"start", "end"} =>
        /\ Malformed(BoundGiven) => sd_ret.exc = "ValueError"
        /\ sd_ret.exc \in {"none", "ValueError", "AssertionError"}
        /\ sd_ret.exc # "none" =>
              /\ sd_obj.live
              /\ sd_obj.start = sd_prev.start
              /\ sd_obj.end = sd_prev.end

\* C29 happens: an object was given an end before its start, which was refused
C29_Witness ==
    /\ sd_call.op = "end"
    /\ sd_ret.exc = "AssertionError"
    /\ sd_obj.live
    /\ \E b \in Asked(sd_call.end, sd_call.now, FALSE) : b < sd_obj.start

\* ---------------------------------------------------------------------------
\* An object without outdir (Spec)
\* ---------------------------------------------------------------------------

\* C30: without outdir write_pypistat reads no stored file and creates or
\* changes no file and no directory, whatever the granularity and the flags:
\* the files are those that were there, no partition has a stored table or a
\* failed read, the table of a partition is the fresh one (with the
\* placeholders when gap filling is on), _write_csv takes no step, and a call
\* that has ended without error has called the provider once per partition
C30_NoOutdirNoFiles ==
    ~wps.outdir =>
        /\ files \in InitialFiles
        /\ made = (files # {})
        /\ exc # "OSError"
        /\ cur.stored.none /\ ~cur.existed
        /\ pc = "fill" => cur.stat = cur.fresh
        /\ \A j \in 1..Len(stats) :
              /\ stats[j].stored.none /\ ~stats[j].existed
              /\ ~wps.fill_no_data => stats[j].stat = stats[j].fresh
              /\ stats[j].fresh.none => (stats[j].stat.none <=> ~wps.fill_no_data)
        /\ \A i \in 1..Len(log) : log[i][1] \notin {"makedirs", "finalize", "to_csv"}
        /\ (pc = "idle" /\ exc = "none" /\ runs > 0) =>
              /\ Len(Fetches) = Len(parts)
              /\ written = Len(parts)

\* C30 happens: a call by year with the merge on has ended without outdir; it
\* had a table for the year 2022, of which a file exists, and the file is
\* as it was
C30_Witness ==
    /\ ~wps.outdir
    /\ wps.merge_stored_data
    /\ wps.date_period = "year"
    /\ pc = "idle" /\ exc = "none" /\ runs > 0
    /\ Len(stats) >= 1
    /\ written = Len(stats)
    /\ \E j \in 1..Len(stats) :
          /\ ~stats[j].stat.none
          /\ \E f \in files : f.file = stats[j].stat_file /\ f.text.rows = EmptyBag

====
